---- MODULE Spec2Model ----
(***************************************************************************)
(* Model of mongomancy's Engine (src/src/mongomancy/engine.py): the        *)
(* retrying command wrapper, ping, reconnect with its observer list, and   *)
(* dispose.  One caller thread drives the engine; every remote call        *)
(* (command, ping, client construction, close, observer) has its outcome   *)
(* drawn from the outcomes the driver can produce.                         *)
(*                                                                         *)
(* Further specifications over the same variables: SpecBootstrap, two      *)
(* Database registries (src/src/mongomancy/schema.py) running create_all   *)
(* under the master lock document; SpecRegistry, one registry with its     *)
(* engine's retry and reconnect; SpecTower, threads going through the      *)
(* SemaphoreTower (src/src/mongomancy/types.py) and the two semaphores of  *)
(* create_all; SpecSequence, one registry's create_all over its topology,  *)
(* with replies that get lost; SpecNames, fill_index_names on a            *)
(* CollectionDefinition; SpecDispose, threads calling Engine.dispose.      *)
(***************************************************************************)
EXTENDS Integers, Sequences, FiniteSets, TLC

\* ---------------------------------------------------------------- bounds
MaxRetry == 2
MaxHooks == 2
MaxBuilt == 1
MaxWait == 1
MaxTopology == 1
MaxCalls == 3
MaxFaults == 1
MaxNest == 2
MaxEnters == 2
MaxDeclared == 2
MaxStep == 2
MaxIndices == 2

\* ------------------------------------------------------- program values
Hooks == {"h1", "h2"}

DEFAULT_RETRY == {10107}

Err(c, k) == [cls |-> c, code |-> k]

NoneVal == Err("None", 0)

FalseVal == Err("False", 0)

\* pymongo's exception hierarchy, as far as the handlers can tell it apart
Bases(c) ==
  CASE c = "AutoReconnect" -> {"AutoReconnect", "ConnectionFailure", "PyMongoError"}
    [] c = "ConnectionFailure" -> {"ConnectionFailure", "PyMongoError"}
    [] c = "WriteError" -> {"WriteError", "PyMongoError"}
    [] c = "ConfigurationError" -> {"ConfigurationError", "PyMongoError"}
    [] c = "CollectionInvalid" -> {"CollectionInvalid", "PyMongoError"}
    [] c = "PyMongoError" -> {"PyMongoError"}
    [] c = "IOError" -> {"IOError"}
    [] OTHER -> {}

IsInstance(e, classes) == Bases(e.cls) \cap classes # {}

CONNECTION_ERRORS == {"AutoReconnect", "ConnectionFailure", "IOError"}

\* what a command issued on a collection can raise
CommandErrors ==
  { Err("AutoReconnect", 0), Err("WriteError", 10107), Err("WriteError", -7),
    Err("ConfigurationError", 0) }

\* what the ping command can raise
PingErrors == { Err("AutoReconnect", 0), Err("ConfigurationError", 0) }

\* what building a client or closing one can raise
ClientErrors == { Err("IOError", 0), Err("PyMongoError", 0) }

\* what a reconnect observer can raise
HookErrors == { Err("IOError", 0), Err("PyMongoError", 0) }

\* python truthiness of the _error local: False and None are falsy
Truthy(e) == e # NoneVal /\ e # FalseVal

Max(a, b) == IF a >= b THEN a ELSE b

NoResult == [attempt |-> 0, client |-> 0, depth |-> 0]

NoCollection == [client |-> 0, depth |-> 0, raw |-> FALSE]

Event(ev, e, c, d, h) ==
  [ev |-> ev, cls |-> e.cls, code |-> e.code, client |-> c, depth |-> d, hook |-> h]

VARIABLES
  client,           \* Engine.client: identity of the current MongoClient
  disposed,         \* Engine.disposed
  reconnect_hooks,  \* Engine.reconnect_hooks
  write_retry,      \* Engine.write_retry
  read_retry,       \* Engine.read_retry
  retry_codes,      \* Engine.retry_codes
  multiprocess,     \* SemaphoreTower.multiprocess counter
  thread,           \* SemaphoreTower.thread counter
  created,          \* number of MongoClient objects built so far
  closeCalls,       \* clients close() was called on, in call order
  pc,               \* position of the caller
  ret,              \* where the running reconnect() returns to
  op,               \* operation the caller runs
  collection,       \* _retry_command: local `collection`
  attempt,          \* _retry_command: local `attempt`
  error,            \* _retry_command: local `_error`
  result,           \* _retry_command: local `result`
  retry,            \* ping: local `retry`
  is_ok,            \* ping: local `is_ok`
  hookIdx,          \* _reconnect: position in reconnect_hooks
  rcError,          \* error the running reconnect() raises (NoneVal: none)
  raised,           \* error the operation raised to its caller (NoneVal: none)
  returned,         \* value a command returned
  pingReturn,       \* value ping() returned
  log,              \* what the running operation did, in order
  startDisposed,    \* disposed flag when the operation was called
  clientBefore      \* client when the running reconnect() was called

VARIABLES
  database_name,    \* Database.name, the same for every registry of the model
  collections,      \* remote: names of the collections of the target database
  indices,          \* remote: index names of each collection
  docs,             \* remote: copies of a definition's default document, by namespace
  locked,           \* remote: the master lock document of each database
  faults,           \* remote: server errors raised so far
  topology,         \* Database.topology, per registry
  _collections,     \* Database._collections, per registry: name -> Collection object
  heap,             \* the Collection objects a registry built: name, mongo_collection
  _database,        \* Database._database, per registry: the client it was taken from
  ppc,              \* position of each registry's caller
  call,             \* operation each registry's caller runs
  local,            \* locals and parameters of the running operation, per registry
  failure,          \* error the operation raised to its caller (NoneVal: none)
  handed,           \* object the operation returned (0: none)
  lookup,           \* what the last lookup returned
  acquired,         \* the caller's _lock() returned True and its _unlock() is to come
  timedOut,         \* the caller has once given up waiting for the lock
  remote,           \* the operation made a remote call
  made,             \* the operation created a collection, an index or a document
  alone,            \* no other registry ran an operation during this one
  rerun,            \* when the operation was called the server was bootstrapped already
  asked,            \* names the running create_all called create_collection with, in order
  cacheBefore,      \* _collections when the operation was called
  calls             \* registry operations started so far

VARIABLES
  timeout,          \* SemaphoreTower.timeout
  tpc,              \* position of each thread using the tower
  obtained,         \* what each thread's acquire() calls returned, per nesting level
  entered           \* times each thread went for the tower

VARIABLES
  wait_step,        \* Database.wait_step, the same for every registry
  max_wait,         \* Database.max_wait, the same for every registry
  definition,       \* a CollectionDefinition a caller builds and fills in
  job,              \* what each thread of the process is doing around the tower
  mp_semaphore,     \* Database.mp_semaphore counter
  th_semaphore      \* Database.th_semaphore counter

engineVars == <<client, disposed, reconnect_hooks, multiprocess, thread, created, closeCalls>>

cfgVars == <<write_retry, read_retry, retry_codes>>

cmdVars == <<collection, attempt, error, result>>

pingVars == <<retry, is_ok>>

rcVars == <<hookIdx, rcError, clientBefore, ret>>

outVars == <<raised, returned, pingReturn>>

callVars == <<op, startDisposed>>

remoteVars == <<database_name, collections, indices, docs, locked, faults>>

regVars == <<topology, _collections, heap, _database>>

ctlVars == <<ppc, call, local>>

resVars == <<failure, handed, lookup>>

ghostVars == <<acquired, timedOut, remote, made, alone, rerun, asked, cacheBefore, calls>>

registryVars == <<remoteVars, regVars, ctlVars, resVars, ghostVars>>

towerVars == <<timeout, tpc, obtained, entered>>

\* what the engine's own caller leaves alone: the registries, the tower's threads
\* the registry's configuration, a definition in the making, and the threads
\* that share one registry and one engine
sideVars == <<wait_step, max_wait, definition, job, mp_semaphore, th_semaphore>>

restVars == <<registryVars, towerVars, sideVars>>

vars ==
  <<engineVars, cfgVars, cmdVars, pingVars, rcVars, outVars, callVars, pc, log, restVars>>

\* ------------------------------------------- values of the schema module
\* registries of one database, each in a process of its own with its own engine
Procs == {"p1", "p2"}

\* threads of one process that use one tower
Threads == {"t1", "t2"}

LOCK_COLLECTION == "mongomancy_lock"

\* the database `self._database.client.c` names, and another one
DbNames == {"c", "gaming"}

Index(fields, ixname, unique) == [fields |-> fields, name |-> ixname, unique |-> unique]

\* a default document: its unique key, and whether the key is the server-checked _id
Document(unique_key, by_id) == [unique_key |-> unique_key, by_id |-> by_id]

CollectionDefinition(n, ixs, ds) == [name |-> n, indices |-> ixs, default_docs |-> ds]

define_lock_collection(n) == CollectionDefinition(n, <<>>, <<Document("master", TRUE)>>)

DefNames == {"game", "player"}

AllNames == DefNames \cup {LOCK_COLLECTION}

\* the definitions a caller declares, and the registry's own lock collection
Def(n) ==
  CASE n = "game" ->
         CollectionDefinition("game", <<Index(<<"genre">>, "None", FALSE)>>,
                              <<Document("adventure", FALSE)>>)
    [] n = "player" ->
         CollectionDefinition("player", <<Index(<<"player_id">>, "None", TRUE),
                                            Index(<<"name">>, "None", FALSE)>>, <<>>)
    [] OTHER -> define_lock_collection(LOCK_COLLECTION)

\* '_'.join(index.fields)
RECURSIVE Join(_)
Join(fields) ==
  IF fields = <<>> THEN ""
  ELSE IF Len(fields) = 1 THEN fields[1]
  ELSE fields[1] \o "_" \o Join(Tail(fields))

\* CollectionDefinition.fill_index_names: the name an index ends up with
fill_index_names(d, i) ==
  LET index == d.indices[i]
  IN IF index.name = "None"
       THEN (IF index.unique THEN "ux" ELSE "ix") \o "__" \o d.name \o "__" \o Join(index.fields)
       ELSE index.name

\* namespaces a command can reach: one `.dialect_entity` deeper per attempt
Depths == 1..(MaxRetry + 1)

\* a Collection object: its name and the client its mongo_collection belongs to
Handle(n, k) == [name |-> n, mongo_collection |-> k]

\* what a lookup gives: an object, or the error it raises
Found(o) == [err |-> "None", obj |-> o]

NotFound(cls) == [err |-> cls, obj |-> 0]

NoLookup == [name |-> "", get |-> Found(0), item |-> Found(0), attr |-> Found(0), contains |-> FALSE]

\* the observer Database.__init__ registers with its engine
RegistryHooks == <<"invalidate_cache_hook">>

\* -------------------------------------------------------------- __init__
\* Engine.__init__ with the server reachable, but for the retry budgets and
\* the observers
EngineBuilt ==
  /\ client = 1
  /\ disposed = FALSE
  /\ retry_codes = DEFAULT_RETRY
  /\ multiprocess = 1
  /\ thread = 1
  /\ created = 1
  /\ closeCalls = <<>>
  /\ pc = "idle"
  /\ ret = "none"
  /\ op = "none"
  /\ collection = NoCollection
  /\ attempt = 0
  /\ error = FalseVal
  /\ result = NoResult
  /\ retry = 0
  /\ is_ok = FALSE
  /\ hookIdx = 0
  /\ rcError = NoneVal
  /\ raised = NoneVal
  /\ returned = NoResult
  /\ pingReturn = "none"
  /\ log = <<>>
  /\ startDisposed = FALSE
  /\ clientBefore = 0

\* a database nothing was created in
RemoteEmpty ==
  /\ collections = {}
  /\ indices = [n \in AllNames |-> {}]
  /\ docs = [n \in DefNames |-> [d \in Depths |-> 0]]
  /\ locked = [d \in DbNames |-> "absent"]
  /\ faults = 0

\* Database.__init__ but for the topology: empty cache, _database of the client
NewDatabases ==
  /\ _collections = [p \in Procs |-> [n \in AllNames |-> 0]]
  /\ heap = [p \in Procs |-> <<>>]
  /\ _database = [p \in Procs |-> client]

\* the locals of create_all and create_collection before a call
NoLocals ==
  [ret |-> "none", skip_existing |-> TRUE, wait_time |-> 0, it |-> 0, definition |-> "",
   is_new |-> FALSE, new_collection |-> 0, attempts |-> 0, tries |-> 0, flipped |-> FALSE,
   silent |-> TRUE]

\* no registry operation was called yet
NoCallYet ==
  /\ ppc = [p \in Procs |-> "idle"]
  /\ call = [p \in Procs |-> "none"]
  /\ local = [p \in Procs |-> NoLocals]
  /\ failure = [p \in Procs |-> NoneVal]
  /\ handed = [p \in Procs |-> 0]
  /\ lookup = [p \in Procs |-> NoLookup]
  /\ acquired = [p \in Procs |-> FALSE]
  /\ timedOut = [p \in Procs |-> FALSE]
  /\ remote = [p \in Procs |-> FALSE]
  /\ made = [p \in Procs |-> FALSE]
  /\ alone = [p \in Procs |-> TRUE]
  /\ rerun = [p \in Procs |-> FALSE]
  /\ asked = [p \in Procs |-> <<>>]
  /\ cacheBefore = [p \in Procs |-> [n \in AllNames |-> 0]]
  /\ calls = 0

\* no definition is in the making
NoDefinition == CollectionDefinition("", <<>>, <<>>)

\* Database(..., wait_step, max_wait) in units of the shortest wait_step
WaitDefaults == wait_step = 1 /\ max_wait = MaxWait

\* no definition in the making; no thread at work
SideAtRest ==
  /\ definition = NoDefinition
  /\ job = [t \in Threads |-> "idle"]
  /\ mp_semaphore = 1
  /\ th_semaphore = 1

\* no thread uses the tower but the engine's caller
TowerAtRest ==
  /\ timeout = "None"
  /\ tpc = [t \in Threads |-> "out"]
  /\ obtained = [t \in Threads |-> <<>>]
  /\ entered = [t \in Threads |-> 0]
  /\ SideAtRest

\* an engine alone: no registry is built on it
Init ==
  /\ EngineBuilt
  /\ reconnect_hooks = <<>>
  /\ write_retry \in 0..MaxRetry
  /\ read_retry \in {0, MaxRetry}
  /\ database_name = "gaming"
  /\ RemoteEmpty
  /\ topology = [p \in Procs |-> <<>>]
  /\ NewDatabases
  /\ NoCallYet
  /\ TowerAtRest
  /\ WaitDefaults

\* the caller is between operations and may call another one; calls stop
\* once more than MaxBuilt clients have been built
CanCall == pc \in {"idle", "done"} /\ created <= MaxBuilt

\* common part of every call: a fresh record of the call
Begin(name) ==
  /\ op' = name
  /\ startDisposed' = disposed
  /\ raised' = NoneVal
  /\ returned' = NoResult
  /\ pingReturn' = "none"

ResetCmd == collection' = NoCollection /\ attempt' = 0 /\ error' = FalseVal /\ result' = NoResult

ResetPing == retry' = 0 /\ is_ok' = FALSE

ResetRc == ret' = "none" /\ hookIdx' = 0 /\ rcError' = NoneVal /\ clientBefore' = 0

\* self.reconnect() called from the place named r
CallReconnect(r) ==
  /\ pc' = "rc_new"
  /\ ret' = r
  /\ hookIdx' = 0
  /\ rcError' = NoneVal
  /\ clientBefore' = client

\* SemaphoreTower.__enter__: both semaphores, timeout None
Acquire ==
  /\ multiprocess > 0
  /\ thread > 0
  /\ multiprocess' = multiprocess - 1
  /\ thread' = thread - 1

\* SemaphoreTower.__exit__
Release ==
  /\ thread' = thread + 1
  /\ multiprocess' = multiprocess + 1

\* ------------------------------------------------------- register_hook
\* observers are registered while the caller sets up, before its first call
register_hook(h) ==
  /\ pc = "idle"
  /\ Len(reconnect_hooks) < MaxHooks
  /\ reconnect_hooks' = Append(reconnect_hooks, h)
  /\ UNCHANGED <<client, disposed, multiprocess, thread, created, closeCalls>>
  /\ UNCHANGED <<cfgVars, restVars, cmdVars, pingVars, rcVars, outVars, callVars, pc, log>>

\* ------------------------------------------------------------ reconnect
\* reconnect() called by the caller itself
StartReconnect ==
  /\ CanCall
  /\ Begin("reconnect")
  /\ CallReconnect("caller")
  /\ log' = <<>>
  /\ ResetCmd
  /\ ResetPing
  /\ UNCHANGED <<engineVars, cfgVars, restVars>>

\* mutant: the reference is overwritten even when building the client raised
ClientAfterNewAlwaysSwapped(outcome) == created + 1

\* `self.client = self._new_client()`: the reference after the statement
ClientAfterNew(outcome) == IF outcome = NoneVal THEN created + 1 ELSE client

\* `self.disposed = False` is reached only when the client was built
DisposedAfterNew(outcome) == IF outcome = NoneVal THEN FALSE ELSE disposed

\* reconnect(): enter the tower; _reconnect(): build the client, swap it
\* in, clear the flag.  A failure to build leaves the tower at once.
RcNewClient ==
  /\ pc = "rc_new"
  /\ \E outcome \in {NoneVal} \cup ClientErrors :
       /\ client' = ClientAfterNew(outcome)
       /\ disposed' = DisposedAfterNew(outcome)
       /\ log' = Append(log, Event("reconnect", outcome, ClientAfterNew(outcome), 0, ""))
       /\ IF outcome = NoneVal
            THEN /\ Acquire
                 /\ created' = created + 1
                 /\ hookIdx' = 1
                 /\ pc' = "rc_hooks"
                 /\ UNCHANGED rcError
            ELSE /\ multiprocess > 0
                 /\ thread > 0
                 /\ rcError' = outcome
                 /\ pc' = "rc_ret"
                 /\ UNCHANGED <<created, hookIdx, multiprocess, thread>>
  /\ UNCHANGED <<reconnect_hooks, closeCalls, clientBefore, ret>>
  /\ UNCHANGED <<cfgVars, restVars, cmdVars, pingVars, outVars, callVars>>

\* mutant: the observers are walked from the last registered to the first
HookAtReversed(i) == reconnect_hooks[Len(reconnect_hooks) + 1 - i]

\* `for hook in self.reconnect_hooks`: the i-th observer called
HookAt(i) == reconnect_hooks[i]

\* mutant: an observer's error is dropped and the next observer is called
RcHookSwallows ==
  /\ pc = "rc_hooks"
  /\ hookIdx <= Len(reconnect_hooks)
  /\ \E outcome \in {NoneVal} \cup HookErrors :
       /\ log' = Append(log, Event("hook", outcome, client, 0, HookAt(hookIdx)))
       /\ hookIdx' = hookIdx + 1
       /\ UNCHANGED <<pc, rcError, multiprocess, thread>>
  /\ UNCHANGED <<client, disposed, reconnect_hooks, created, closeCalls, clientBefore, ret>>
  /\ UNCHANGED <<cfgVars, restVars, cmdVars, pingVars, outVars, callVars>>

\* _reconnect(): call the next observer with the engine
RcHook ==
  /\ pc = "rc_hooks"
  /\ hookIdx <= Len(reconnect_hooks)
  /\ \E outcome \in {NoneVal} \cup HookErrors :
       /\ log' = Append(log, Event("hook", outcome, client, 0, HookAt(hookIdx)))
       /\ IF outcome = NoneVal
            THEN /\ hookIdx' = hookIdx + 1
                 /\ UNCHANGED <<pc, rcError, multiprocess, thread>>
            ELSE /\ rcError' = outcome
                 /\ Release
                 /\ pc' = "rc_ret"
                 /\ UNCHANGED hookIdx
  /\ UNCHANGED <<client, disposed, reconnect_hooks, created, closeCalls, clientBefore, ret>>
  /\ UNCHANGED <<cfgVars, restVars, cmdVars, pingVars, outVars, callVars>>

\* _reconnect(): every observer was called; leave the tower
RcDone ==
  /\ pc = "rc_hooks"
  /\ hookIdx > Len(reconnect_hooks)
  /\ Release
  /\ pc' = "rc_ret"
  /\ UNCHANGED <<client, disposed, reconnect_hooks, created, closeCalls>>
  /\ UNCHANGED <<cfgVars, restVars, cmdVars, pingVars, rcVars, outVars, callVars, log>>

\* reconnect() returns to the caller, or raises to it
ReconnectReturn ==
  /\ pc = "rc_ret"
  /\ ret = "caller"
  /\ raised' = rcError
  /\ pc' = "done"
  /\ UNCHANGED <<returned, pingReturn>>
  /\ UNCHANGED <<engineVars, cfgVars, restVars, cmdVars, pingVars, rcVars, callVars, log>>

\* -------------------------------------------------------------- dispose
\* dispose() on a disposed engine: the first check returns
DisposeNoop ==
  /\ CanCall
  /\ disposed
  /\ Begin("dispose")
  /\ pc' = "done"
  /\ log' = <<>>
  /\ ResetCmd
  /\ ResetPing
  /\ ResetRc
  /\ UNCHANGED <<engineVars, cfgVars, restVars>>

\* dispose() on a live engine: go for the tower
StartDispose ==
  /\ CanCall
  /\ ~disposed
  /\ Begin("dispose")
  /\ pc' = "ds_enter"
  /\ log' = <<>>
  /\ ResetCmd
  /\ ResetPing
  /\ ResetRc
  /\ UNCHANGED <<engineVars, cfgVars, restVars>>

\* dispose(): inside the tower, the second check
DsEnter ==
  /\ pc = "ds_enter"
  /\ IF disposed
       THEN /\ multiprocess > 0
            /\ thread > 0
            /\ pc' = "done"
            /\ UNCHANGED <<multiprocess, thread>>
       ELSE /\ Acquire
            /\ pc' = "ds_close"
  /\ UNCHANGED <<client, disposed, reconnect_hooks, created, closeCalls>>
  /\ UNCHANGED <<cfgVars, restVars, cmdVars, pingVars, rcVars, outVars, callVars, log>>

\* mutant: the except clause names the driver's errors only
CloseCaughtDriverOnly(e) == IsInstance(e, {"PyMongoError"})

\* _dispose(): the classes the except clause around close() names
CloseCaught(e) == IsInstance(e, {"PyMongoError"} \cup CONNECTION_ERRORS)

\* _dispose(): close the client, set the flag, leave the tower
DsClose ==
  /\ pc = "ds_close"
  /\ \E outcome \in {NoneVal} \cup ClientErrors :
       /\ closeCalls' = Append(closeCalls, client)
       /\ log' = Append(log, Event("close", outcome, client, 0, ""))
       /\ IF outcome = NoneVal \/ CloseCaught(outcome)
            THEN disposed' = TRUE /\ UNCHANGED raised
            ELSE raised' = outcome /\ UNCHANGED disposed
  /\ Release
  /\ pc' = "done"
  /\ UNCHANGED <<client, reconnect_hooks, created, returned, pingReturn>>
  /\ UNCHANGED <<cfgVars, restVars, cmdVars, pingVars, rcVars, callVars>>

\* ------------------------------------------------------- _retry_command
\* `collection.dialect_entity`: the attribute of a container; on a raw
\* driver collection, attribute access yields the sub-collection of that name
DialectEntity(col) ==
  [client |-> col.client, depth |-> IF col.raw THEN col.depth + 1 ELSE col.depth]

\* `self.client[collection.dialect_entity.database.name][collection.dialect_entity.name]`
Resolve(col) == [client |-> client, depth |-> DialectEntity(col).depth, raw |-> TRUE]

\* mutant: the loop stops one attempt early
LoopContinuesShort(att, err) == att < write_retry /\ err # NoneVal

\* `while attempt <= self.write_retry and _error is not None`
LoopContinues(att, err) == att <= write_retry /\ err # NoneVal

\* mutant: a write error is never retried
ClassifyNoWriteRetry(e) ==
  IF IsInstance(e, CONNECTION_ERRORS) THEN "retry" ELSE "raise"

\* mutant: a write error is retried whatever its code
ClassifyAnyWriteRetry(e) ==
  IF IsInstance(e, CONNECTION_ERRORS \cup {"WriteError"}) THEN "retry" ELSE "raise"

\* mutant: only connectivity errors leave the loop, every other one is retried
ClassifyRetryOthers(e) ==
  IF IsInstance(e, {"WriteError"}) /\ e.code \notin retry_codes THEN "raise" ELSE "retry"

\* the except clauses of the attempt: retry, or let the error out
Classify(e) ==
  CASE IsInstance(e, CONNECTION_ERRORS) -> "retry"
    [] IsInstance(e, {"WriteError"}) /\ ~IsInstance(e, CONNECTION_ERRORS) ->
         IF e.code \in retry_codes THEN "retry" ELSE "raise"
    [] OTHER -> "raise"

\* mutant: a disposed engine is used as it is
ReconnectFirstNever == FALSE

\* `if self.disposed:` at the head of _retry_command
ReconnectFirst == disposed

\* the client a caller's collection reference was taken from: the one the
\* engine holds when the operation is called
Holders == {client}

\* Engine.find_one, insert_one, ...: _retry_command(collection, method, ...)
\* up to the loop; the caller hands in a container or a driver collection
\* taken from the client c.  The method name only selects the driver
\* function whose outcome CmdAttempt draws.
StartCommand(isRaw, c) ==
  /\ CanCall
  /\ Begin("command")
  /\ collection' = [client |-> c, depth |-> 0, raw |-> isRaw]
  /\ result' = NoResult
  /\ error' = FalseVal
  /\ attempt' = 0
  /\ IF ReconnectFirst
       THEN /\ log' = <<Event("sleep", NoneVal, 0, 0, "")>>
            /\ CallReconnect("cmd_start")
       ELSE /\ log' = <<>>
            /\ pc' = "cmd_loop"
            /\ ResetRc
  /\ ResetPing
  /\ UNCHANGED <<engineVars, cfgVars, restVars>>

\* the reconnect() of a disposed engine came back
CmdAfterFirstReconnect ==
  /\ pc = "rc_ret"
  /\ ret = "cmd_start"
  /\ IF rcError # NoneVal
       THEN raised' = rcError /\ pc' = "done"
       ELSE pc' = "cmd_loop" /\ UNCHANGED raised
  /\ UNCHANGED <<returned, pingReturn>>
  /\ UNCHANGED <<engineVars, cfgVars, restVars, cmdVars, pingVars, rcVars, callVars, log>>

\* one pass of the loop body up to the call of reconnect()
CmdAttempt ==
  /\ pc = "cmd_loop"
  /\ LoopContinues(attempt, error)
  /\ attempt' = attempt + 1
  /\ \E outcome \in {NoneVal} \cup CommandErrors :
       LET target == DialectEntity(collection)
           tried == Append(log, Event("attempt", outcome, target.client, target.depth, ""))
       IN IF outcome = NoneVal
            THEN /\ result' = [attempt |-> attempt + 1, client |-> target.client,
                               depth |-> target.depth]
                 /\ error' = NoneVal
                 /\ log' = tried
                 /\ UNCHANGED <<pc, raised, rcVars>>
            ELSE IF Classify(outcome) = "retry"
            THEN /\ error' = outcome
                 /\ log' = Append(tried, Event("sleep", NoneVal, 0, 0, ""))
                 /\ CallReconnect("cmd_retry")
                 /\ UNCHANGED <<result, raised>>
            ELSE /\ raised' = outcome
                 /\ pc' = "done"
                 /\ log' = tried
                 /\ UNCHANGED <<result, error, rcVars>>
  /\ UNCHANGED <<collection, returned, pingReturn>>
  /\ UNCHANGED <<engineVars, cfgVars, restVars, pingVars, callVars>>

\* mutant: a failed reconnect() is ignored and the loop goes round again
CmdAfterRetryReconnectGoesOn ==
  /\ pc = "rc_ret"
  /\ ret = "cmd_retry"
  /\ collection' = IF Truthy(error) /\ rcError = NoneVal THEN Resolve(collection) ELSE collection
  /\ pc' = "cmd_loop"
  /\ UNCHANGED raised
  /\ UNCHANGED <<attempt, error, result, returned, pingReturn>>
  /\ UNCHANGED <<engineVars, cfgVars, restVars, pingVars, rcVars, callVars, log>>

\* the reconnect() of a failed attempt came back: `if _error: collection = ...`
CmdAfterRetryReconnect ==
  /\ pc = "rc_ret"
  /\ ret = "cmd_retry"
  /\ IF rcError # NoneVal
       THEN /\ raised' = rcError
            /\ pc' = "done"
            /\ UNCHANGED collection
       ELSE /\ collection' = IF Truthy(error) THEN Resolve(collection) ELSE collection
            /\ pc' = "cmd_loop"
            /\ UNCHANGED raised
  /\ UNCHANGED <<attempt, error, result, returned, pingReturn>>
  /\ UNCHANGED <<engineVars, cfgVars, restVars, pingVars, rcVars, callVars, log>>

\* after the loop: raise the last error, or return the result
CmdExit ==
  /\ pc = "cmd_loop"
  /\ ~LoopContinues(attempt, error)
  /\ IF Truthy(error)
       THEN raised' = error /\ UNCHANGED returned
       ELSE returned' = result /\ UNCHANGED raised
  /\ pc' = "done"
  /\ UNCHANGED pingReturn
  /\ UNCHANGED <<engineVars, cfgVars, restVars, cmdVars, pingVars, rcVars, callVars, log>>

\* ----------------------------------------------------------------- ping
\* mutant: one pass more than the budget
PingBudgetOneMore == Max(1, read_retry) + 1

\* `retry = max(1, self.read_retry)`
PingBudget == Max(1, read_retry)

\* ping(): locals set, before the loop
StartPing ==
  /\ CanCall
  /\ Begin("ping")
  /\ retry' = PingBudget
  /\ is_ok' = FALSE
  /\ pc' = "pg_loop"
  /\ log' = <<>>
  /\ ResetCmd
  /\ ResetRc
  /\ UNCHANGED <<engineVars, cfgVars, restVars>>

\* head of a pass: `retry -= 1`, then reconnect() when disposed
PgIter ==
  /\ pc = "pg_loop"
  /\ ~is_ok
  /\ retry > 0
  /\ retry' = retry - 1
  /\ IF disposed
       THEN CallReconnect("pg_disposed")
       ELSE pc' = "pg_cmd" /\ UNCHANGED rcVars
  /\ UNCHANGED <<is_ok, log>>
  /\ UNCHANGED <<engineVars, cfgVars, restVars, cmdVars, outVars, callVars>>

\* the except clause around the reconnect() of a disposed engine
PingReconnectCaught(e) == IsInstance(e, {"PyMongoError"})

\* the reconnect() of a disposed engine came back
PgAfterFirstReconnect ==
  /\ pc = "rc_ret"
  /\ ret = "pg_disposed"
  /\ IF rcError = NoneVal
       THEN pc' = "pg_cmd" /\ UNCHANGED <<is_ok, raised>>
       ELSE IF PingReconnectCaught(rcError)
       THEN pc' = "pg_cmd" /\ is_ok' = FALSE /\ UNCHANGED raised
       ELSE pc' = "done" /\ raised' = rcError /\ UNCHANGED is_ok
  /\ UNCHANGED <<retry, returned, pingReturn>>
  /\ UNCHANGED <<engineVars, cfgVars, restVars, cmdVars, rcVars, callVars, log>>

\* the ping command and its except clauses, up to the call of reconnect()
PgCmd ==
  /\ pc = "pg_cmd"
  /\ \E outcome \in {NoneVal} \cup PingErrors :
       LET tried == Append(log, Event("ping", outcome, client, 0, ""))
       IN IF outcome = NoneVal
            THEN /\ is_ok' = TRUE
                 /\ pc' = "pg_loop"
                 /\ log' = tried
                 /\ UNCHANGED <<raised, rcVars>>
            ELSE IF IsInstance(outcome, CONNECTION_ERRORS)
            THEN /\ log' = Append(tried, Event("sleep", NoneVal, 0, 0, ""))
                 /\ CallReconnect("pg_retry")
                 /\ UNCHANGED <<is_ok, raised>>
            ELSE IF IsInstance(outcome, {"PyMongoError"})
            THEN /\ pc' = "pg_loop"
                 /\ log' = tried
                 /\ UNCHANGED <<is_ok, raised, rcVars>>
            ELSE /\ raised' = outcome
                 /\ pc' = "done"
                 /\ log' = tried
                 /\ UNCHANGED <<is_ok, rcVars>>
  /\ UNCHANGED <<retry, returned, pingReturn>>
  /\ UNCHANGED <<engineVars, cfgVars, restVars, cmdVars, callVars>>

\* the reconnect() after a failed ping came back
PgAfterRetryReconnect ==
  /\ pc = "rc_ret"
  /\ ret = "pg_retry"
  /\ IF rcError # NoneVal
       THEN raised' = rcError /\ pc' = "done"
       ELSE pc' = "pg_loop" /\ UNCHANGED raised
  /\ UNCHANGED <<returned, pingReturn>>
  /\ UNCHANGED <<engineVars, cfgVars, restVars, cmdVars, pingVars, rcVars, callVars, log>>

\* `return bool(is_ok)`
PgExit ==
  /\ pc = "pg_loop"
  /\ ~(~is_ok /\ retry > 0)
  /\ pingReturn' = IF is_ok THEN "True" ELSE "False"
  /\ pc' = "done"
  /\ UNCHANGED <<raised, returned>>
  /\ UNCHANGED <<engineVars, cfgVars, restVars, cmdVars, pingVars, rcVars, callVars, log>>

\* ------------------------------------------------------------ behaviours
Next ==
  \/ \E h \in Hooks : register_hook(h)
  \/ StartReconnect
  \/ RcNewClient
  \/ RcHook
  \/ RcDone
  \/ ReconnectReturn
  \/ DisposeNoop
  \/ StartDispose
  \/ DsEnter
  \/ DsClose
  \/ \E isRaw \in BOOLEAN, c \in Holders : StartCommand(isRaw, c)
  \/ CmdAfterFirstReconnect
  \/ CmdAttempt
  \/ CmdAfterRetryReconnect
  \/ CmdExit
  \/ StartPing
  \/ PgIter
  \/ PgAfterFirstReconnect
  \/ PgCmd
  \/ PgAfterRetryReconnect
  \/ PgExit

Spec == Init /\ [][Next]_vars

TypeOK ==
  /\ client \in 1..created
  /\ disposed \in BOOLEAN
  /\ Len(reconnect_hooks) <= MaxHooks
  /\ multiprocess \in 0..1
  /\ thread \in 0..1
  /\ attempt \in 0..(write_retry + 1)
  /\ retry \in 0..Max(1, read_retry)

\* ---------------------------------------------- reading the call record
ErrOf(e) == Err(e.cls, e.code)

Failed(e) == e.cls # "None"

Events(kind) == SelectSeq(log, LAMBDA e : e.ev = kind)

Count(kind) == Len(Events(kind))

Attempts == Events("attempt")

Last(q) == q[Len(q)]

\* a retryable failure in the words of the specification: a connectivity
\* error, or a write error with a code of the retryable set
RetryableFailure(e) ==
  \/ e.cls \in {"AutoReconnect", "ConnectionFailure", "IOError"}
  \/ e.cls = "WriteError" /\ e.code \in retry_codes

\* every reconnect() of the call built its client and ran its observers
ReconnectsSucceeded ==
  \A i \in DOMAIN log : log[i].ev \in {"reconnect", "hook"} => ~Failed(log[i])

CommandDone == op = "command" /\ pc = "done"

\* every attempt made so far failed with a retryable failure
AllAttemptsRetryable ==
  \A i \in DOMAIN Attempts : Failed(Attempts[i]) /\ RetryableFailure(Attempts[i])

\* the failed attempts of the call
Failures == SelectSeq(Attempts, Failed)

\* the events after the last reconnect event of the call
SinceReconnect ==
  LET idx == {i \in DOMAIN log : log[i].ev = "reconnect"}
      from == IF idx = {} THEN 0 ELSE CHOOSE i \in idx : \A j \in idx : j <= i
  IN SubSeq(log, from + 1, Len(log))

\* the running reconnect() has failed to build its client
BuildFailed == log # <<>> /\ Last(log).ev = "reconnect" /\ Failed(Last(log))

\* --------------------------------------------------------------- claims
\* C1: on a non-disposed executor, N <= write_retry retryable failures
\* followed by a success, every reconnect succeeding, end with the result of
\* attempt N+1 returned and exactly N reconnects: a finished command whose
\* failures are all retryable and number at most write_retry has returned the
\* result of its last attempt.
C1_RetryThenSuccess ==
  ( /\ CommandDone
    /\ ~startDisposed
    /\ ReconnectsSucceeded
    /\ \A i \in DOMAIN Failures : RetryableFailure(Failures[i])
    /\ Len(Failures) <= write_retry )
  => /\ Len(Attempts) = Len(Failures) + 1
     /\ ~Failed(Last(Attempts))
     /\ raised = NoneVal
     /\ returned = [attempt |-> Len(Attempts), client |-> Last(Attempts).client,
                    depth |-> Last(Attempts).depth]
     /\ Count("reconnect") = Len(Failures)

C1_Witness ==
  /\ CommandDone
  /\ ~startDisposed
  /\ Len(Attempts) = 3
  /\ ErrOf(Attempts[1]) = Err("AutoReconnect", 0)
  /\ ErrOf(Attempts[2]) = Err("WriteError", 10107)
  /\ returned.attempt = 3
  /\ Count("reconnect") = 2

FirstAttemptPermanent ==
  /\ op = "command"
  /\ Len(Attempts) >= 1
  /\ Attempts[1].cls = "WriteError"
  /\ Attempts[1].code \notin retry_codes

\* C3 as stated: a non-retryable write error on the first attempt is
\* propagated after one attempt, with no sleep and no reconnect() performed by
\* the operation.
C3_Original ==
  FirstAttemptPermanent
  => /\ pc = "done"
     /\ raised = ErrOf(Attempts[1])
     /\ Len(Attempts) = 1
     /\ Count("sleep") = 0
     /\ Count("reconnect") = 0

\* C3 amended: a non-retryable write error on the first attempt is propagated
\* after one attempt, and nothing follows the attempt; the operation sleeps
\* and reconnects only before it, once, when the executor was disposed at the
\* call.
C3_PermanentWriteSurfaced ==
  FirstAttemptPermanent
  => /\ pc = "done"
     /\ raised = ErrOf(Attempts[1])
     /\ Len(Attempts) = 1
     /\ Last(log).ev = "attempt"
     /\ Count("sleep") = (IF startDisposed THEN 1 ELSE 0)
     /\ Count("reconnect") = (IF startDisposed THEN 1 ELSE 0)

C3_Witness ==
  /\ FirstAttemptPermanent
  /\ ~startDisposed
  /\ pc = "done"
  /\ Len(log) = 1
  /\ raised = Err("WriteError", -7)

\* C4: wherever it stands in the attempt sequence, an attempt that fails with
\* a non-retryable error is the last thing the operation does, and its error
\* is the one raised.
C4_NonRetryableEnds ==
  \A i \in DOMAIN log :
    (log[i].ev = "attempt" /\ Failed(log[i]) /\ ~RetryableFailure(log[i]))
    => /\ i = Len(log)
       /\ pc = "done"
       /\ raised = ErrOf(log[i])

C4_Witness ==
  /\ CommandDone
  /\ Len(Attempts) = 2
  /\ Len(Attempts) <= write_retry
  /\ RetryableFailure(Attempts[1])
  /\ ErrOf(Attempts[2]) = Err("ConfigurationError", 0)
  /\ raised = Err("ConfigurationError", 0)

\* C5: a finished dispose() leaves disposed true and has raised nothing,
\* whatever close() did; called on a disposed executor it closes nothing.
C5_DisposeIdempotent ==
  (op = "dispose" /\ pc = "done")
  => /\ disposed
     /\ raised = NoneVal
     /\ Count("close") <= 1
     /\ startDisposed => log = <<>>

C5_Witness ==
  /\ op = "dispose"
  /\ pc = "done"
  /\ startDisposed
  /\ closeCalls = <<client>>
  /\ log = <<>>
  /\ disposed

\* C6 as stated: ping() never raises; it returns a boolean, false when the
\* budget ran out without a successful ping.
C6_PingNeverRaises ==
  (op = "ping" /\ pc = "done")
  => /\ raised = NoneVal
     /\ pingReturn \in {"True", "False"}
     /\ (\A i \in DOMAIN Events("ping") : Failed(Events("ping")[i])) => pingReturn = "False"

\* no remote call of the operation failed: the server is reachable
AllSucceeded == \A i \in DOMAIN log : ~Failed(log[i])

\* C7: called on a disposed executor with the server reachable, ping() and a
\* command reconnect once, before their only attempt, and succeed; disposed is
\* false afterwards.
C7_DisposedCallReconnects ==
  (startDisposed /\ op \in {"ping", "command"} /\ pc = "done" /\ AllSucceeded)
  => /\ raised = NoneVal
     /\ ~disposed
     /\ Count("reconnect") = 1
     /\ Last(log).ev = (IF op = "ping" THEN "ping" ELSE "attempt")
     /\ Count(Last(log).ev) = 1
     /\ op = "ping" => pingReturn = "True"
     /\ op = "command" => returned.attempt = 1

C7_Witness ==
  /\ startDisposed
  /\ op = "command"
  /\ pc = "done"
  /\ AllSucceeded
  /\ returned.attempt = 1
  /\ ~disposed

\* C8: when reconnect() returns without an error, the client is a newly
\* built one, disposed is false, and every registered observer has been
\* called with the engine, holding the new client, in registration order,
\* once per registration.
C8_ReconnectNotifies ==
  (pc = "rc_ret" /\ rcError = NoneVal)
  => /\ client = created
     /\ client > clientBefore
     /\ ~disposed
     /\ Len(SinceReconnect) = Len(reconnect_hooks)
     /\ \A i \in DOMAIN SinceReconnect :
          /\ SinceReconnect[i].ev = "hook"
          /\ SinceReconnect[i].hook = reconnect_hooks[i]
          /\ SinceReconnect[i].client = client
          /\ ~Failed(SinceReconnect[i])

C8_Witness ==
  /\ pc = "rc_ret"
  /\ rcError = NoneVal
  /\ reconnect_hooks = <<"h2", "h2">>
  /\ Len(SinceReconnect) = 2
  /\ startDisposed

\* C9: when reconnect() cannot build a new client, its error reaches the
\* caller, the client reference is the one held before the call, and no
\* observer has been called.
C9_FailedReconnectKeepsClient ==
  /\ (pc = "rc_ret" /\ BuildFailed)
       => /\ rcError = ErrOf(Last(log))
          /\ client = clientBefore
          /\ SinceReconnect = <<>>
  /\ (op = "reconnect" /\ pc = "done" /\ BuildFailed)
       => /\ raised = ErrOf(Last(log))
          /\ client = clientBefore

C9_Witness ==
  /\ op = "reconnect"
  /\ pc = "done"
  /\ BuildFailed
  /\ raised = Err("IOError", 0)
  /\ reconnect_hooks # <<>>

\* C10 as stated: when reconnect() cannot build a new client, the executor
\* is disposed afterwards, whatever the flag was before.
C10_FailedReconnectDisposed ==
  (pc = "rc_ret" /\ BuildFailed) => disposed

\* ======================================================================
\* Database (src/src/mongomancy/schema.py): the registry of Collection
\* objects and the bootstrap create_all() runs under the master lock
\* document.  Every driver call is a step of its own; the calls that go
\* through the engine reach the namespace `<name>.dialect_entity`.
\* ======================================================================

\* everything the engine's own caller moves, but the engine's fields
callerVars == <<cfgVars, cmdVars, pingVars, rcVars, outVars, callVars, pc, log>>

Upd(f, p, v) == [f EXCEPT ![p] = v]

Others(p) == Procs \ {p}

\* the registry's caller is between operations
Resting(p) == ppc[p] \in {"idle", "done"}

CanStart(p) == Resting(p) /\ calls < MaxCalls

\* everything the registry declares, and the lock collection with its master
\* document, is on the server: an earlier bootstrap got that far
Bootstrapped(p) ==
  /\ LOCK_COLLECTION \in collections
  /\ locked[database_name] # "absent"
  /\ \A i \in DOMAIN topology[p] : topology[p][i] \in collections

\* a call begins: a fresh record of what it does
BeginCall(p, what) ==
  /\ call' = Upd(call, p, what)
  /\ calls' = calls + 1
  /\ failure' = Upd(failure, p, NoneVal)
  /\ handed' = Upd(handed, p, 0)
  /\ remote' = Upd(remote, p, FALSE)
  /\ made' = Upd(made, p, FALSE)
  /\ cacheBefore' = Upd(cacheBefore, p, _collections[p])
  /\ rerun' = Upd(rerun, p, Bootstrapped(p))
  /\ asked' = Upd(asked, p, <<>>)
  /\ alone' = [q \in Procs |->
                 IF q = p THEN \A o \in Others(p) : Resting(o)
                 ELSE IF Resting(q) THEN alone[q] ELSE FALSE]

\* what is left of the locals when the call ends: the arguments of a
\* create_collection the user called
Leftover(loc) ==
  IF loc.ret = "user"
    THEN [NoLocals EXCEPT !.definition = loc.definition, !.skip_existing = loc.skip_existing]
    ELSE NoLocals

\* the caller moves to the place `to`
Step(p, to, loc) ==
  /\ ppc' = Upd(ppc, p, to)
  /\ local' = Upd(local, p, IF to = "done" THEN Leftover(loc) ELSE loc)

\* ------------------------------------------------------- add_collection
add_collection(p, d) ==
  /\ ppc[p] = "idle"
  /\ Len(topology[p]) < MaxTopology
  /\ topology' = Upd(topology, p, Append(topology[p], d))
  /\ UNCHANGED <<remoteVars, _collections, heap, _database, ctlVars, resVars, ghostVars>>
  /\ UNCHANGED <<engineVars, callerVars, towerVars, sideVars>>

\* ---------------------------------------------------- create_collection
\* the parameter skip_existing of the running create_collection: _lock()
\* leaves it at its default, create_all() passes its own on
SkipExisting(p) == local[p].ret = "lock" \/ local[p].skip_existing

\* where a create_collection that returns goes on
AfterReturn(p) ==
  CASE local[p].ret = "lock" -> "ca_update"
    [] local[p].ret = "topology" -> "ca_loop"
    [] OTHER -> "done"

\* mutant: create_all() catches the error of a definition and goes on
AfterRaiseGoOn(p) == IF local[p].ret = "topology" THEN "ca_loop" ELSE "done"

\* where an error raised inside create_collection lands: create_all() guards
\* the loop over the topology, not the _lock() of its wait loop
AfterRaise(p) == IF local[p].ret = "topology" THEN "ca_unlock" ELSE "done"

\* mutant: a cached name is initialised again
IsCachedNever(p, n) == FALSE

\* `definition.name in self._collections`
IsCached(p, n) == _collections[p][n] # 0

\* create_collection(definition, skip_existing) called by the user of the registry
create_collection(p, d, skip) ==
  /\ CanStart(p)
  /\ BeginCall(p, "create_collection")
  /\ Step(p, "cc_check", [NoLocals EXCEPT !.ret = "user", !.definition = d, !.skip_existing = skip])
  /\ UNCHANGED <<remoteVars, regVars, lookup, acquired, timedOut>>
  /\ UNCHANGED <<engineVars, callerVars, towerVars, sideVars>>

\* the name is cached: return the cached object
CcCached(p) ==
  /\ ppc[p] = "cc_check"
  /\ IsCached(p, local[p].definition)
  /\ handed' = Upd(handed, p, _collections[p][local[p].definition])
  /\ Step(p, AfterReturn(p), local[p])
  /\ UNCHANGED <<remoteVars, regVars, call, failure, lookup, ghostVars>>
  /\ UNCHANGED <<engineVars, callerVars, towerVars, sideVars>>

\* Collection(mongo_collection = self._database[name], engine): a new object
NewObject(p) == Append(heap[p], Handle(local[p].definition, _database[p]))

\* mutant: an existing collection is spared its indices, but its default
\* documents with a key of their own are inserted once more
AfterResolveInsert(p, isNew) ==
  LET ds == Def(local[p].definition).default_docs
  IN IF isNew \/ ~SkipExisting(p) THEN "cc_index"
     ELSE IF ds = <<>> \/ ds[1].by_id THEN "cc_store"
     ELSE "cc_insert"

\* what follows _create_mongo_collection: `if is_new or not skip_existing`
AfterResolve(p, isNew) ==
  IF isNew \/ ~SkipExisting(p) THEN "cc_index" ELSE "cc_store"

\* _create_mongo_collection: `definition.name in list_collection_names()`
CcList(p) ==
  /\ ppc[p] = "cc_check"
  /\ ~IsCached(p, local[p].definition)
  /\ remote' = Upd(remote, p, TRUE)
  /\ IF local[p].definition \in collections
       THEN /\ heap' = Upd(heap, p, NewObject(p))
            /\ Step(p, AfterResolve(p, FALSE),
                    [local[p] EXCEPT !.is_new = FALSE, !.new_collection = Len(heap[p]) + 1])
       ELSE /\ Step(p, "cc_create", local[p])
            /\ UNCHANGED heap
  /\ UNCHANGED <<remoteVars, topology, _collections, _database, call, resVars>>
  /\ UNCHANGED <<acquired, timedOut, made, alone, rerun, asked, cacheBefore, calls>>
  /\ UNCHANGED <<engineVars, callerVars, towerVars, sideVars>>

\* mutant: the except clause of _create_mongo_collection catches nothing
CaughtOnCreateNothing(e) == FALSE

\* `except pymongo.errors.CollectionInvalid:`
CaughtOnCreate(e) == IsInstance(e, {"CollectionInvalid"})

\* what self._database.create_collection(name) can come back with: the server
\* refuses a name that exists (CollectionInvalid), or fails otherwise
CreateOutcomes(n) ==
  (IF n \in collections THEN {Err("CollectionInvalid", 0)} ELSE {NoneVal})
    \cup {Err("OperationFailure", 0) : f \in {f \in {TRUE} : faults < MaxFaults}}

\* _create_mongo_collection: self._database.create_collection(name); a
\* CollectionInvalid (a peer was first) is caught and the collection fetched by
\* name, any other error gets out
CcCreate(p) ==
  /\ ppc[p] = "cc_create"
  /\ remote' = Upd(remote, p, TRUE)
  /\ \E outcome \in CreateOutcomes(local[p].definition) :
       /\ faults' = IF outcome.cls = "OperationFailure" THEN faults + 1 ELSE faults
       /\ IF outcome = NoneVal \/ CaughtOnCreate(outcome)
            THEN /\ collections' = collections \cup {local[p].definition}
                 /\ made' = Upd(made, p, made[p] \/ outcome = NoneVal)
                 /\ heap' = Upd(heap, p, NewObject(p))
                 /\ Step(p, AfterResolve(p, TRUE),
                         [local[p] EXCEPT !.is_new = TRUE, !.new_collection = Len(heap[p]) + 1])
                 /\ UNCHANGED failure
            ELSE /\ failure' = Upd(failure, p, outcome)
                 /\ Step(p, AfterRaise(p), local[p])
                 /\ UNCHANGED <<collections, made, heap>>
  /\ UNCHANGED <<database_name, indices, docs, locked, topology, _collections, _database>>
  /\ UNCHANGED <<call, handed, lookup, acquired, timedOut, alone, rerun, asked, cacheBefore, calls>>
  /\ UNCHANGED <<engineVars, callerVars, towerVars, sideVars>>

\* the names of the indices of a definition, after fill_index_names
IndexNames(d) == {fill_index_names(d, i) : i \in DOMAIN d.indices}

\* the names of a definition's indices in the order of definition.indices
NameList(d) == [i \in DOMAIN d.indices |-> fill_index_names(d, i)]

\* the sets of positions of definition.indices at which create_index can raise
\* while the server still has errors to give
Refusals(d) == {r \in SUBSET (DOMAIN d.indices) : Cardinality(r) <= MaxFaults - faults}

\* mutant: the error gets out in silent mode as well
RaisesAlways(silent) == TRUE

\* _create_index: `except PyMongoError as e: ... if not silent: raise e from e`
Raises(silent) == ~silent

\* _create_indices from index number i on: `for index in definition.indices:
\* if index.name not in mongo_collection.index_information():
\* self._create_index(mongo_collection, index, silent)`, where create_index
\* raises at the positions of `refused`. The result: the index names on the
\* server, the error that got out, the create_index calls that raised.
RECURSIVE IndicesFrom(_, _, _, _, _, _)
IndicesFrom(names, i, present, refused, silent, sofar) ==
  IF i > Len(names)
    THEN [present |-> present, error |-> NoneVal, raised |-> sofar]
    ELSE IF names[i] \in present
           THEN IndicesFrom(names, i + 1, present, refused, silent, sofar)
           ELSE IF i \in refused
                  THEN IF Raises(silent)
                         THEN [present |-> present, error |-> Err("OperationFailure", 0),
                               raised |-> sofar + 1]
                         ELSE IndicesFrom(names, i + 1, present, refused, silent, sofar + 1)
                  ELSE IndicesFrom(names, i + 1, present \cup {names[i]}, refused, silent, sofar)

\* _create_indices(definition, mongo_collection, silent)
CreateIndices(n, refused, silent) == IndicesFrom(NameList(Def(n)), 1, indices[n], refused, silent, 0)

\* create_collection: self._create_indices(definition, mongo_collection), in
\* the default silent mode
CcIndices(p) ==
  /\ ppc[p] = "cc_index"
  /\ \E refused \in Refusals(Def(local[p].definition)) :
       LET n == local[p].definition
           out == CreateIndices(n, refused, TRUE)
       IN /\ out.raised = Cardinality(refused)
          /\ indices' = [indices EXCEPT ![n] = out.present]
          /\ faults' = faults + out.raised
          /\ made' = Upd(made, p, made[p] \/ out.present # indices[n])
          /\ remote' = Upd(remote, p, remote[p] \/ Def(n).indices # <<>>)
          /\ IF out.error = NoneVal
               THEN /\ Step(p, IF Def(n).default_docs = <<>> THEN "cc_store" ELSE "cc_find", local[p])
                    /\ UNCHANGED failure
               ELSE /\ failure' = Upd(failure, p, out.error)
                    /\ Step(p, AfterRaise(p), local[p])
  /\ UNCHANGED <<database_name, collections, docs, locked, regVars, call, handed, lookup>>
  /\ UNCHANGED <<acquired, timedOut, alone, rerun, asked, cacheBefore, calls>>
  /\ UNCHANGED <<engineVars, callerVars, towerVars, sideVars>>

\* _create_indices(definition, mongo_collection, silent) called on a
\* collection of the server by a user who chooses the mode
_create_indices(p, n, silent) ==
  /\ CanStart(p)
  /\ n \in collections
  /\ call' = Upd(call, p, "_create_indices")
  /\ calls' = calls + 1
  /\ handed' = Upd(handed, p, 0)
  /\ cacheBefore' = Upd(cacheBefore, p, _collections[p])
  /\ rerun' = Upd(rerun, p, Bootstrapped(p))
  /\ asked' = Upd(asked, p, <<>>)
  /\ alone' = [q \in Procs |-> IF q = p THEN \A o \in Others(p) : Resting(o) ELSE alone[q]]
  /\ \E refused \in Refusals(Def(n)) :
       LET out == CreateIndices(n, refused, silent)
       IN /\ out.raised = Cardinality(refused) \/ out.error # NoneVal
          /\ refused # {} => out.raised > 0
          /\ indices' = [indices EXCEPT ![n] = out.present]
          /\ faults' = faults + out.raised
          /\ failure' = Upd(failure, p, out.error)
          /\ remote' = Upd(remote, p, TRUE)
          /\ made' = Upd(made, p, out.present # indices[n])
  /\ ppc' = Upd(ppc, p, "done")
  /\ local' = Upd(local, p, [NoLocals EXCEPT !.definition = n, !.silent = silent])
  /\ UNCHANGED <<database_name, collections, docs, locked, regVars, lookup, acquired, timedOut>>
  /\ UNCHANGED <<engineVars, callerVars, towerVars, sideVars>>

\* the collection the engine's attempt works on: the Collection object hands
\* over its raw mongo_collection, of which the engine takes .dialect_entity,
\* and which it resolves again after every failed attempt
RECURSIVE Resolved(_, _)
Resolved(col, k) == IF k = 0 THEN col ELSE Resolve(Resolved(col, k - 1))

TargetDepth(p) ==
  DialectEntity(Resolved([client |-> heap[p][local[p].new_collection].mongo_collection,
                          depth |-> 0, raw |-> TRUE], local[p].attempts)).depth

\* the default document of the definition is in the namespace at depth d
HasDoc(n, d) ==
  IF n = LOCK_COLLECTION
    THEN d = 1 /\ locked[database_name] # "absent"
    ELSE docs[n][d] > 0

\* _insert_defaults: `if not collection.find_one(doc.unique_key, {"_id": 1})`
DocMissing(p) == ~HasDoc(local[p].definition, TargetDepth(p))

\* _insert_defaults: the point lookup of the default document
CcFind(p) ==
  /\ ppc[p] = "cc_find"
  /\ remote' = Upd(remote, p, TRUE)
  /\ Step(p, IF DocMissing(p) THEN "cc_insert" ELSE "cc_store", [local[p] EXCEPT !.attempts = 0])
  /\ UNCHANGED <<remoteVars, regVars, call, resVars>>
  /\ UNCHANGED <<acquired, timedOut, made, alone, rerun, asked, cacheBefore, calls>>
  /\ UNCHANGED <<engineVars, callerVars, towerVars, sideVars>>

\* _insert_defaults: collection.insert_one(doc.data); the server refuses a
\* second document with the same _id (DuplicateKeyError, a WriteError whose
\* code 11000 is not retried)
CcInsert(p) ==
  /\ ppc[p] = "cc_insert"
  /\ remote' = Upd(remote, p, TRUE)
  /\ LET n == local[p].definition
         d == TargetDepth(p)
         doc == Def(n).default_docs[1]
     IN IF doc.by_id /\ HasDoc(n, d)
          THEN /\ failure' = Upd(failure, p, Err("WriteError", 11000))
               /\ Step(p, AfterRaise(p), local[p])
               /\ UNCHANGED <<docs, locked, made>>
          ELSE /\ IF n = LOCK_COLLECTION
                    THEN /\ locked' = [locked EXCEPT ![database_name] = "False"]
                         /\ UNCHANGED docs
                    ELSE /\ docs' = [docs EXCEPT ![n][d] = docs[n][d] + 1]
                         /\ UNCHANGED locked
               /\ made' = Upd(made, p, TRUE)
               /\ Step(p, "cc_store", [local[p] EXCEPT !.attempts = 0])
               /\ UNCHANGED failure
  /\ UNCHANGED <<database_name, collections, indices, faults, regVars, call, handed, lookup>>
  /\ UNCHANGED <<acquired, timedOut, alone, rerun, asked, cacheBefore, calls>>
  /\ UNCHANGED <<engineVars, callerVars, towerVars, sideVars>>

\* mutant: the new object is returned and not cached
StoredNowhere(p) == _collections[p]

\* the cache with the new object under its name
Stored(p) ==
  [_collections[p] EXCEPT ![heap[p][local[p].new_collection].name] = local[p].new_collection]

\* `self._collections[new_collection.name] = new_collection; return new_collection`
CcStore(p) ==
  /\ ppc[p] = "cc_store"
  /\ _collections' = Upd(_collections, p, Stored(p))
  /\ handed' = Upd(handed, p, local[p].new_collection)
  /\ Step(p, AfterReturn(p), [local[p] EXCEPT !.new_collection = 0, !.is_new = FALSE])
  /\ UNCHANGED <<remoteVars, topology, heap, _database, call, failure, lookup, ghostVars>>
  /\ UNCHANGED <<engineVars, callerVars, towerVars, sideVars>>

\* ------------------------------------------------------------ create_all
\* create_all(skip_existing): inside the registry's own two semaphores, which
\* its single caller finds free; wait_time = 0; the first _lock() starts with
\* self.create_collection(define_lock_collection(LOCK_COLLECTION))
create_all(p, skip) ==
  /\ CanStart(p)
  /\ BeginCall(p, "create_all")
  /\ Step(p, "cc_check",
          [NoLocals EXCEPT !.ret = "lock", !.definition = LOCK_COLLECTION, !.skip_existing = skip])
  /\ UNCHANGED <<remoteVars, regVars, lookup, acquired, timedOut>>
  /\ UNCHANGED <<engineVars, callerVars, towerVars, sideVars>>

\* mutant: the update matches the master document whatever its flag
LockFreeAnyFlag(db) == locked[db] # "absent"

\* find_one_and_update(where = {_id: master, locked: False}): a document matches
LockFree(db) == locked[db] = "False"

\* the database whose lock collection _unlock() writes to:
\* `self._database.client.c[self.LOCK_COLLECTION]`
UnlockDatabase == "c"

\* _unlock(): {$set: {locked: False}}, upsert
Unlocked == [locked EXCEPT ![UnlockDatabase] = "False"]

\* A wait loop that allows one more step than max_wait.
GiveUpLate(t) == t > max_wait + wait_step

\* `if wait_time > self.max_wait`
GiveUp(t) == t > max_wait

\* _lock(): the find_one_and_update on the master document, and what the wait
\* loop does with its answer: go on, sleep and call _lock() again, or give up.
\* The engine's first attempt runs on the namespace the document is in; an
\* attempt after a failed one runs one `.dialect_entity` deeper, where nothing
\* matches.
CaUpdate(p) ==
  /\ ppc[p] = "ca_update"
  /\ remote' = Upd(remote, p, TRUE)
  /\ LET after == [local[p] EXCEPT !.tries = local[p].tries + 1, !.attempts = 0,
                                   !.flipped = FALSE]
     IN IF local[p].attempts = 0 /\ LockFree(database_name)
          THEN /\ locked' = [locked EXCEPT ![database_name] = "True"]
               /\ acquired' = Upd(acquired, p, TRUE)
               /\ Step(p, "ca_loop", after)
          ELSE /\ Step(p, IF GiveUp(local[p].wait_time + wait_step) THEN "ca_giveup" ELSE "cc_check",
                       [after EXCEPT !.wait_time = local[p].wait_time + wait_step])
               /\ UNCHANGED <<locked, acquired>>
  /\ UNCHANGED <<database_name, collections, indices, docs, faults, regVars, call, resVars>>
  /\ UNCHANGED <<timedOut, made, alone, rerun, asked, cacheBefore, calls>>
  /\ UNCHANGED <<engineVars, callerVars, towerVars, sideVars>>

\* the wait timed out: self._unlock(); break
CaGiveUp(p) ==
  /\ ppc[p] = "ca_giveup"
  /\ remote' = Upd(remote, p, TRUE)
  /\ locked' = Unlocked
  /\ timedOut' = Upd(timedOut, p, TRUE)
  /\ Step(p, "ca_loop", local[p])
  /\ UNCHANGED <<database_name, collections, indices, docs, faults, regVars, call>>
  /\ UNCHANGED <<resVars, acquired, made, alone, rerun, asked, cacheBefore, calls>>
  /\ UNCHANGED <<engineVars, callerVars, towerVars, sideVars>>

\* `for collection_definition in self.topology`: create_collection of the next
CaNext(p) ==
  /\ ppc[p] = "ca_loop"
  /\ local[p].it < Len(topology[p])
  /\ Step(p, "cc_check",
          [local[p] EXCEPT !.it = local[p].it + 1, !.ret = "topology",
                           !.definition = topology[p][local[p].it + 1]])
  /\ asked' = Upd(asked, p, Append(asked[p], topology[p][local[p].it + 1]))
  /\ UNCHANGED <<remoteVars, regVars, call, resVars>>
  /\ UNCHANGED <<acquired, timedOut, remote, made, alone, rerun, cacheBefore, calls>>
  /\ UNCHANGED <<engineVars, callerVars, towerVars, sideVars>>

\* self._unlock() after the loop, or in its except clause before the raise
CaUnlock(p) ==
  /\ \/ ppc[p] = "ca_loop" /\ local[p].it >= Len(topology[p])
     \/ ppc[p] = "ca_unlock"
  /\ remote' = Upd(remote, p, TRUE)
  /\ locked' = Unlocked
  /\ acquired' = Upd(acquired, p, FALSE)
  /\ Step(p, "done", local[p])
  /\ UNCHANGED <<database_name, collections, indices, docs, faults, regVars, call>>
  /\ UNCHANGED <<resVars, timedOut, made, alone, rerun, asked, cacheBefore, calls>>
  /\ UNCHANGED <<engineVars, callerVars, towerVars, sideVars>>

\* two registries of one database, each given some definitions at construction
InitBootstrap ==
  /\ EngineBuilt
  /\ reconnect_hooks = RegistryHooks
  /\ write_retry = 0
  /\ read_retry = 0
  /\ database_name \in DbNames
  /\ RemoteEmpty
  /\ topology \in [Procs -> {<<>>, <<"game">>}]
  /\ NewDatabases
  /\ NoCallYet
  /\ TowerAtRest
  /\ WaitDefaults

NextBootstrap ==
  \/ \E p \in Procs, d \in DefNames : add_collection(p, d)
  \/ \E p \in Procs, skip \in BOOLEAN : create_all(p, skip)
  \/ \E p \in Procs : CcCached(p)
  \/ \E p \in Procs : CcList(p)
  \/ \E p \in Procs : CcCreate(p)
  \/ \E p \in Procs : CcIndices(p)
  \/ \E p \in Procs : CcFind(p)
  \/ \E p \in Procs : CcInsert(p)
  \/ \E p \in Procs : CcStore(p)
  \/ \E p \in Procs : CaUpdate(p)
  \/ \E p \in Procs : CaGiveUp(p)
  \/ \E p \in Procs : CaNext(p)
  \/ \E p \in Procs : CaUnlock(p)

SpecBootstrap == InitBootstrap /\ [][NextBootstrap]_vars

\* ======================================================================
\* One registry and its engine: create_collection() with the engine's retry
\* inside, reconnect() with the registry's observer, and the lookups.
\* ======================================================================

\* the registry of this specification
Single == {"p1"}

\* the objects of the cache
CachedObjects(p) == {_collections[p][n] : n \in AllNames} \ {0}

\* invalidate_cache_hook: `for collection in self._collections.values():
\* collection.mongo_collection = self._database[collection.name]`
Rebound(p, c) ==
  [i \in DOMAIN heap[p] |->
     IF i \in CachedObjects(p) THEN [heap[p][i] EXCEPT !.mongo_collection = c] ELSE heap[p][i]]

\* _reconnect(): a new client; when it was built, the observers in order, of
\* which the registry's is the only one
invalidate_cache_hook(p, outcome) ==
  IF outcome = NoneVal
    THEN /\ _database' = Upd(_database, p, ClientAfterNew(outcome))
         /\ heap' = Upd(heap, p, Rebound(p, ClientAfterNew(outcome)))
    ELSE UNCHANGED <<_database, heap>>

\* reconnect() as the engine runs it inside the tower, from entry to exit
Reconnected(p, outcome) ==
  /\ multiprocess > 0
  /\ thread > 0
  /\ client' = ClientAfterNew(outcome)
  /\ disposed' = DisposedAfterNew(outcome)
  /\ created' = IF outcome = NoneVal THEN created + 1 ELSE created
  /\ invalidate_cache_hook(p, outcome)
  /\ UNCHANGED <<reconnect_hooks, multiprocess, thread, closeCalls>>

\* engine.reconnect() called by the registry's user between two operations
RgReconnect(p) ==
  /\ Resting(p)
  /\ created <= MaxBuilt
  /\ \E outcome \in {NoneVal} \cup ClientErrors :
       /\ Reconnected(p, outcome)
       /\ failure' = Upd(failure, p, outcome)
  /\ call' = Upd(call, p, "reconnect")
  /\ ppc' = Upd(ppc, p, "done")
  /\ UNCHANGED <<remoteVars, topology, _collections, local, handed, lookup, ghostVars>>
  /\ UNCHANGED <<callerVars, towerVars, sideVars>>

\* _retry_command inside Collection.find_one / insert_one: the attempt fails
\* with a connectivity error; sleep, reconnect(), resolve the collection again,
\* and go round the loop or raise the error
CcAttemptFails(p) ==
  /\ ppc[p] \in {"cc_find", "cc_insert"}
  /\ created <= MaxBuilt
  /\ remote' = Upd(remote, p, TRUE)
  /\ \E outcome \in {NoneVal} \cup ClientErrors :
       /\ Reconnected(p, outcome)
       /\ IF outcome # NoneVal
            THEN /\ failure' = Upd(failure, p, outcome)
                 /\ Step(p, AfterRaise(p), local[p])
            ELSE IF LoopContinues(local[p].attempts + 1, Err("AutoReconnect", 0))
                   THEN /\ Step(p, ppc[p], [local[p] EXCEPT !.attempts = local[p].attempts + 1])
                        /\ UNCHANGED failure
                   ELSE /\ failure' = Upd(failure, p, Err("AutoReconnect", 0))
                        /\ Step(p, AfterRaise(p), local[p])
  /\ UNCHANGED <<remoteVars, topology, _collections, call, handed, lookup>>
  /\ UNCHANGED <<acquired, timedOut, made, alone, rerun, asked, cacheBefore, calls>>
  /\ UNCHANGED <<callerVars, towerVars, sideVars>>

\* mutant: an unknown name gives no error
get_collectionNoRaise(p, n) == Found(_collections[p][n])

\* Database.get_collection(name)
get_collection(p, n) == IF IsCached(p, n) THEN Found(_collections[p][n]) ELSE NotFound("KeyError")

\* Database.__getitem__(item)
__getitem__(p, n) == IF IsCached(p, n) THEN Found(_collections[p][n]) ELSE NotFound("KeyError")

\* Database.__contains__(item)
__contains__(p, n) == IsCached(p, n)

\* Database.__getattr__(item): object has no __getattr__ to fall back on
__getattr__(p, n) ==
  IF IsCached(p, n) THEN Found(_collections[p][n]) ELSE NotFound("AttributeError")

\* the user looks a name up in every way the registry offers
RgLookup(p, n) ==
  /\ Resting(p)
  /\ lookup' = Upd(lookup, p, [name |-> n, get |-> get_collection(p, n), item |-> __getitem__(p, n),
                               attr |-> __getattr__(p, n), contains |-> __contains__(p, n)])
  /\ call' = Upd(call, p, "lookup")
  /\ ppc' = Upd(ppc, p, "done")
  /\ UNCHANGED <<remoteVars, regVars, local, failure, handed, ghostVars>>
  /\ UNCHANGED <<engineVars, callerVars, towerVars, sideVars>>

\* one registry on a server where another process may have created a
\* declared collection already, and inserted its default document through
\* _insert_defaults
InitRegistry ==
  /\ EngineBuilt
  /\ reconnect_hooks = RegistryHooks
  /\ write_retry \in 0..MaxRetry
  /\ read_retry = 0
  /\ database_name = "gaming"
  /\ collections \in {{}, {"game"}}
  /\ indices = [n \in AllNames |-> {}]
  /\ docs \in {[n \in DefNames |-> [d \in Depths |-> IF n = "game" /\ d = 1 THEN k ELSE 0]] :
                 k \in IF "game" \in collections THEN {0, 1} ELSE {0}}
  /\ locked = [d \in DbNames |-> "absent"]
  /\ faults = 0
  /\ topology = [p \in Procs |-> <<>>]
  /\ NewDatabases
  /\ NoCallYet
  /\ TowerAtRest
  /\ WaitDefaults

NextRegistry ==
  \/ \E p \in Single, d \in DefNames, skip \in BOOLEAN : create_collection(p, d, skip)
  \/ \E p \in Single : CcCached(p)
  \/ \E p \in Single : CcList(p)
  \/ \E p \in Single : CcCreate(p)
  \/ \E p \in Single : CcIndices(p)
  \/ \E p \in Single, d \in DefNames, silent \in BOOLEAN : _create_indices(p, d, silent)
  \/ \E p \in Single : CcFind(p)
  \/ \E p \in Single : CcInsert(p)
  \/ \E p \in Single : CcAttemptFails(p)
  \/ \E p \in Single : CcStore(p)
  \/ \E p \in Single : RgReconnect(p)
  \/ \E p \in Single, n \in DefNames : RgLookup(p, n)

SpecRegistry == InitRegistry /\ [][NextRegistry]_vars

\* ======================================================================
\* SemaphoreTower (src/src/mongomancy/types.py): threads of one process going
\* through `with tower:`, possibly nested.
\* ======================================================================

\* the tower's user leaves everything else alone
TowerFrame ==
  /\ UNCHANGED <<client, disposed, reconnect_hooks, created, closeCalls>>
  /\ UNCHANGED <<callerVars, registryVars, timeout, sideVars>>

\* what the two acquire() calls of one __enter__ returned
NoneObtained == [multiprocess |-> FALSE, thread |-> FALSE]

\* the nesting level the thread is at
Level(t) == Len(obtained[t])

\* the record of the innermost __enter__ with one acquire() result set
Top(t, sem, got) == [obtained[t] EXCEPT ![Level(t)][sem] = got]

\* `with tower:` is reached, outside the tower or inside its guarded section
TwEnter(t) ==
  /\ tpc[t] \in {"out", "in"}
  /\ Level(t) < MaxNest
  /\ entered[t] < MaxEnters
  /\ entered' = Upd(entered, t, entered[t] + 1)
  /\ obtained' = Upd(obtained, t, Append(obtained[t], NoneObtained))
  /\ tpc' = Upd(tpc, t, "multiprocess")
  /\ UNCHANGED <<multiprocess, thread>>
  /\ TowerFrame

\* mutant: acquire() gives up on a taken semaphore whatever the timeout
TimesOutAnyway(sem) == sem = 0

\* acquire(timeout = self.timeout) gives up: there is a timeout and the
\* semaphore is still at zero when it runs out
TimesOut(sem) == timeout # "None" /\ sem = 0

\* self.multiprocess.acquire(timeout=self.timeout) returns True
TwAcquireMp(t) ==
  /\ tpc[t] = "multiprocess"
  /\ multiprocess > 0
  /\ multiprocess' = multiprocess - 1
  /\ obtained' = Upd(obtained, t, Top(t, "multiprocess", TRUE))
  /\ tpc' = Upd(tpc, t, "thread")
  /\ UNCHANGED <<thread, entered>>
  /\ TowerFrame

\* self.multiprocess.acquire(timeout=self.timeout) returns False; the value
\* is dropped and __enter__ goes on
TwTimeoutMp(t) ==
  /\ tpc[t] = "multiprocess"
  /\ TimesOut(multiprocess)
  /\ tpc' = Upd(tpc, t, "thread")
  /\ UNCHANGED <<multiprocess, thread, obtained, entered>>
  /\ TowerFrame

\* self.thread.acquire(timeout=self.timeout) returns True; __enter__ returns
TwAcquireTh(t) ==
  /\ tpc[t] = "thread"
  /\ thread > 0
  /\ thread' = thread - 1
  /\ obtained' = Upd(obtained, t, Top(t, "thread", TRUE))
  /\ tpc' = Upd(tpc, t, "in")
  /\ UNCHANGED <<multiprocess, entered>>
  /\ TowerFrame

\* self.thread.acquire(timeout=self.timeout) returns False; __enter__ returns
TwTimeoutTh(t) ==
  /\ tpc[t] = "thread"
  /\ TimesOut(thread)
  /\ tpc' = Upd(tpc, t, "in")
  /\ UNCHANGED <<multiprocess, thread, obtained, entered>>
  /\ TowerFrame

\* __exit__: self.thread.release()
TwExit(t) ==
  /\ tpc[t] = "in"
  /\ thread' = thread + 1
  /\ tpc' = Upd(tpc, t, "exit")
  /\ UNCHANGED <<multiprocess, obtained, entered>>
  /\ TowerFrame

\* __exit__: self.multiprocess.release(); the `with` block is left
TwExitMp(t) ==
  /\ tpc[t] = "exit"
  /\ multiprocess' = multiprocess + 1
  /\ obtained' = Upd(obtained, t, SubSeq(obtained[t], 1, Level(t) - 1))
  /\ tpc' = Upd(tpc, t, IF Level(t) > 1 THEN "in" ELSE "out")
  /\ UNCHANGED <<thread, entered>>
  /\ TowerFrame

\* what a step of create_all()'s two `with` statements leaves alone
WithFrame ==
  /\ UNCHANGED <<engineVars, callerVars, registryVars, towerVars>>
  /\ UNCHANGED <<wait_step, max_wait, definition>>

\* a thread calls create_all() of the registry the threads share and comes to
\* `with self.mp_semaphore:`
CaCall(t) ==
  /\ job[t] = "idle"
  /\ tpc[t] = "out"
  /\ job' = Upd(job, t, "with_mp")
  /\ UNCHANGED <<mp_semaphore, th_semaphore>>
  /\ WithFrame

\* `with self.mp_semaphore:` is entered: acquire() with no timeout
CaWithMp(t) ==
  /\ job[t] = "with_mp"
  /\ mp_semaphore > 0
  /\ mp_semaphore' = mp_semaphore - 1
  /\ job' = Upd(job, t, "with_th")
  /\ UNCHANGED th_semaphore
  /\ WithFrame

\* `with self.th_semaphore:` is entered; the body may go through the tower
CaWithTh(t) ==
  /\ job[t] = "with_th"
  /\ th_semaphore > 0
  /\ th_semaphore' = th_semaphore - 1
  /\ job' = Upd(job, t, "body")
  /\ UNCHANGED mp_semaphore
  /\ WithFrame

\* the inner `with` is left: self.th_semaphore.release()
CaLeaveTh(t) ==
  /\ job[t] = "body"
  /\ tpc[t] = "out"
  /\ th_semaphore' = th_semaphore + 1
  /\ job' = Upd(job, t, "leave_mp")
  /\ UNCHANGED mp_semaphore
  /\ WithFrame

\* the outer `with` is left: self.mp_semaphore.release(); create_all() returns
CaLeaveMp(t) ==
  /\ job[t] = "leave_mp"
  /\ mp_semaphore' = mp_semaphore + 1
  /\ job' = Upd(job, t, "idle")
  /\ UNCHANGED th_semaphore
  /\ WithFrame

\* the thread is where it can come to a `with tower:`: outside create_all(),
\* or in the body of its two `with` statements
AtLarge(t) == job[t] \in {"idle", "body"}

\* SemaphoreTower(value = 1, timeout): the engine's own has timeout None
InitTower ==
  /\ EngineBuilt
  /\ reconnect_hooks = <<>>
  /\ write_retry = 0
  /\ read_retry = 0
  /\ database_name = "gaming"
  /\ RemoteEmpty
  /\ topology = [p \in Procs |-> <<>>]
  /\ NewDatabases
  /\ NoCallYet
  /\ timeout \in {"None", "finite"}
  /\ tpc = [t \in Threads |-> "out"]
  /\ obtained = [t \in Threads |-> <<>>]
  /\ entered = [t \in Threads |-> 0]
  /\ SideAtRest
  /\ WaitDefaults

NextTower ==
  \/ \E t \in Threads : AtLarge(t) /\ TwEnter(t)
  \/ \E t \in Threads : TwAcquireMp(t)
  \/ \E t \in Threads : TwTimeoutMp(t)
  \/ \E t \in Threads : TwAcquireTh(t)
  \/ \E t \in Threads : TwTimeoutTh(t)
  \/ \E t \in Threads : TwExit(t)
  \/ \E t \in Threads : TwExitMp(t)
  \/ \E t \in Threads : CaCall(t)
  \/ \E t \in Threads : CaWithMp(t)
  \/ \E t \in Threads : CaWithTh(t)
  \/ \E t \in Threads : CaLeaveTh(t)
  \/ \E t \in Threads : CaLeaveMp(t)

\* a thread inside __enter__ or at __exit__ goes on when it can
TwProgress(t) ==
  TwAcquireMp(t) \/ TwTimeoutMp(t) \/ TwAcquireTh(t) \/ TwTimeoutTh(t) \/ TwExit(t)
    \/ TwExitMp(t)

\* the threads are scheduled: none that can go on waits forever
SpecTower == InitTower /\ [][NextTower]_vars /\ \A t \in Threads : WF_vars(TwProgress(t))

\* ------------------------------------------------------------------------
\* One registry and the order of its bootstrap: create_all() over a topology
\* of up to MaxDeclared definitions, with a server that may refuse a create,
\* for the wait_step and max_wait the constructor is given.

\* Database(collections = [...]): the lists of definitions a caller declares
Declarations == UNION {[1..k -> DefNames] : k \in 0..MaxDeclared}

\* _lock(): the engine's attempt of find_one_and_update fails for the caller
\* with a connectivity error, after the server applied the update or before;
\* _retry_command sleeps, reconnects and goes round its loop, or raises the
\* error, which leaves create_all() from its `while not self._lock()`
CaUpdateLost(p) ==
  /\ ppc[p] = "ca_update"
  /\ created <= MaxBuilt
  /\ remote' = Upd(remote, p, TRUE)
  /\ \E applied \in BOOLEAN, outcome \in {NoneVal} \cup ClientErrors :
       /\ locked' = IF applied /\ local[p].attempts = 0 /\ LockFree(database_name)
                      THEN [locked EXCEPT ![database_name] = "True"]
                      ELSE locked
       /\ Reconnected(p, outcome)
       /\ LET now == [local[p] EXCEPT !.attempts = local[p].attempts + 1,
                                      !.flipped = local[p].flipped \/ locked' # locked]
          IN IF outcome # NoneVal
               THEN /\ failure' = Upd(failure, p, outcome)
                    /\ Step(p, AfterRaise(p), now)
               ELSE IF LoopContinues(now.attempts, Err("AutoReconnect", 0))
                      THEN /\ Step(p, "ca_update", now)
                           /\ UNCHANGED failure
                      ELSE /\ failure' = Upd(failure, p, Err("AutoReconnect", 0))
                           /\ Step(p, AfterRaise(p), now)
  /\ UNCHANGED <<database_name, collections, indices, docs, faults>>
  /\ UNCHANGED <<topology, _collections, call, handed, lookup>>
  /\ UNCHANGED <<acquired, timedOut, made, alone, rerun, asked, cacheBefore, calls>>
  /\ UNCHANGED <<callerVars, towerVars, sideVars>>


InitSequence ==
  /\ EngineBuilt
  /\ reconnect_hooks = RegistryHooks
  /\ write_retry \in 0..MaxRetry
  /\ read_retry = 0
  /\ database_name \in DbNames
  /\ RemoteEmpty
  /\ topology \in {[p \in Procs |-> IF p \in Single THEN s ELSE <<>>] : s \in Declarations}
  /\ NewDatabases
  /\ NoCallYet
  /\ TowerAtRest
  /\ wait_step \in 1..MaxStep
  /\ max_wait \in (-1)..(MaxWait + 2)

NextSequence ==
  \/ \E p \in Single, skip \in BOOLEAN : create_all(p, skip)
  \/ \E p \in Single : CcCached(p)
  \/ \E p \in Single : CcList(p)
  \/ \E p \in Single : CcCreate(p)
  \/ \E p \in Single : CcIndices(p)
  \/ \E p \in Single : CcFind(p)
  \/ \E p \in Single : CcInsert(p)
  \/ \E p \in Single : CcStore(p)
  \/ \E p \in Single : CaUpdate(p)
  \/ \E p \in Single : CaUpdateLost(p)
  \/ \E p \in Single : CaGiveUp(p)
  \/ \E p \in Single : CaNext(p)
  \/ \E p \in Single : CaUnlock(p)

SpecSequence == InitSequence /\ [][NextSequence]_vars

\* ------------------------------------------------------------------------
\* A CollectionDefinition on its own: a caller builds one with up to
\* MaxIndices indices and calls fill_index_names() on it.

\* Index(fields, ...): the field lists a caller gives
FieldLists == {<<"a">>, <<"a", "b">>, <<"a_b">>}

\* Index(..., name): None, or a name of the caller's choice
GivenNames == {"None", "by_a", "ix__game__a"}

\* the Index objects a caller can build
Indexes == {Index(f, n, u) : f \in FieldLists, n \in GivenNames, u \in BOOLEAN}

\* CollectionDefinition(name, indices): the sequences of indices a caller gives
IndexLists == UNION {[1..k -> Indexes] : k \in 0..MaxIndices}

\* fill_index_names(): `for index in self.indices: if index.name is None:
\* index.name = ...`, in place
Filled(d) ==
  [d EXCEPT !.indices = [i \in DOMAIN d.indices |->
                           [d.indices[i] EXCEPT !.name = fill_index_names(d, i)]]]

\* the thread calls definition.fill_index_names()
FillIndexNames(t) ==
  /\ job[t] = "idle"
  /\ definition' = Filled(definition)
  /\ job' = [job EXCEPT ![t] = "filled"]
  /\ UNCHANGED <<engineVars, callerVars, registryVars, towerVars>>
  /\ UNCHANGED <<wait_step, max_wait, mp_semaphore, th_semaphore>>

\* a caller has a CollectionDefinition of the collection "game" in hand
InitNames ==
  /\ EngineBuilt
  /\ reconnect_hooks = <<>>
  /\ write_retry = 0
  /\ read_retry = 0
  /\ database_name = "gaming"
  /\ RemoteEmpty
  /\ topology = [p \in Procs |-> <<>>]
  /\ NewDatabases
  /\ NoCallYet
  /\ timeout = "None"
  /\ tpc = [t \in Threads |-> "out"]
  /\ obtained = [t \in Threads |-> <<>>]
  /\ entered = [t \in Threads |-> 0]
  /\ WaitDefaults
  /\ job = [t \in Threads |-> "idle"]
  /\ mp_semaphore = 1
  /\ th_semaphore = 1
  /\ definition \in {CollectionDefinition("game", ixs, <<>>) : ixs \in IndexLists}

NextNames ==
  \/ \E t \in {"t1"} : FillIndexNames(t)

SpecNames == InitNames /\ [][NextNames]_vars

\* ------------------------------------------------------------------------
\* Threads of one process calling dispose() on one engine that is connected:
\* the first check, the engine's tower (timeout None), the second check,
\* _dispose(), the way out of the tower.

\* what a step of dispose() outside the tower's own code leaves alone
DisposeFrame ==
  /\ UNCHANGED <<client, reconnect_hooks, multiprocess, thread, created>>
  /\ UNCHANGED <<callerVars, registryVars, towerVars>>
  /\ UNCHANGED <<wait_step, max_wait, definition, mp_semaphore, th_semaphore>>

\* a thread calls engine.dispose()
dispose(t) ==
  /\ job[t] \in {"idle", "returned"}
  /\ job' = Upd(job, t, "called")
  /\ UNCHANGED <<disposed, closeCalls>>
  /\ DisposeFrame

\* `if self.disposed: return` before the tower
DsFirstCheck(t) ==
  /\ job[t] = "called"
  /\ job' = Upd(job, t, IF disposed THEN "returned" ELSE "entering")
  /\ UNCHANGED <<disposed, closeCalls>>
  /\ DisposeFrame

\* mutant: inside the tower the flag is not looked at again
SeenDisposedNever == FALSE

\* `if self.disposed: return` inside the tower
SeenDisposed == disposed

\* inside the tower: the second check
DsSecondCheck(t) ==
  /\ job[t] = "entering"
  /\ tpc[t] = "in"
  /\ job' = Upd(job, t, IF SeenDisposed THEN "leaving" ELSE "closing")
  /\ UNCHANGED <<disposed, closeCalls>>
  /\ DisposeFrame

\* _dispose(): self.client.close(), whose errors are caught
DsCloseClient(t) ==
  /\ job[t] = "closing"
  /\ \E outcome \in {NoneVal} \cup ClientErrors :
       /\ closeCalls' = Append(closeCalls, client)
       /\ job' = Upd(job, t, IF outcome = NoneVal \/ CloseCaught(outcome) THEN "closed" ELSE "raised")
  /\ UNCHANGED disposed
  /\ DisposeFrame

\* _dispose(): self.disposed = True
DsSetDisposed(t) ==
  /\ job[t] = "closed"
  /\ disposed' = TRUE
  /\ job' = Upd(job, t, "leaving")
  /\ UNCHANGED closeCalls
  /\ DisposeFrame

\* dispose() returns, the tower left behind
DsReturn(t) ==
  /\ job[t] = "leaving"
  /\ tpc[t] = "out"
  /\ job' = Upd(job, t, "returned")
  /\ UNCHANGED <<disposed, closeCalls>>
  /\ DisposeFrame

\* the steps of one thread's dispose() once it is called; those of the tower
\* are taken where dispose() has its `with self.semaphore_tower:`
DsStep(t) ==
  \/ DsFirstCheck(t)
  \/ job[t] = "entering" /\ tpc[t] = "out" /\ TwEnter(t)
  \/ job[t] = "entering" /\ TwAcquireMp(t)
  \/ job[t] = "entering" /\ TwAcquireTh(t)
  \/ DsSecondCheck(t)
  \/ DsCloseClient(t)
  \/ DsSetDisposed(t)
  \/ job[t] = "leaving" /\ TwExit(t)
  \/ job[t] = "leaving" /\ TwExitMp(t)
  \/ DsReturn(t)

\* Engine(...): connected, nobody in the tower, no dispose() called yet
InitDispose ==
  /\ EngineBuilt
  /\ reconnect_hooks = <<>>
  /\ write_retry = 0
  /\ read_retry = 0
  /\ database_name = "gaming"
  /\ RemoteEmpty
  /\ topology = [p \in Procs |-> <<>>]
  /\ NewDatabases
  /\ NoCallYet
  /\ TowerAtRest
  /\ WaitDefaults

NextDispose ==
  \/ \E t \in Threads : dispose(t)
  \/ \E t \in Threads : DsStep(t)

\* a thread that is in dispose() is scheduled again and again
SpecDispose == InitDispose /\ [][NextDispose]_vars /\ \A t \in Threads : WF_vars(DsStep(t))

\* ======================================================================
\* The registry's cache
\* ======================================================================

\* the Collection object cached under a name
CachedHandle(p, n) == heap[p][_collections[p][n]]

\* C11: once a reconnect() has succeeded, every handle in the registry's cache
\* (one whose create_collection was running during the reconnect included) is
\* bound to the collection of its name on the engine's current client.
C11_HandlesCurrent ==
  created > 1 =>
    \A p \in Single : \A n \in AllNames :
      IsCached(p, n) => CachedHandle(p, n) = Handle(n, client)

\* a create_collection the user called has returned or raised
Returned(p) == call[p] = "create_collection" /\ ppc[p] = "done"

\* C16: create_collection(definition, skip_existing) for a name that is in the
\* cache returns the cached handle, leaves the cache as it was and makes no
\* remote call, whatever skip_existing is.
C16_CachedReturn ==
  \A p \in Single :
    (Returned(p) /\ cacheBefore[p][local[p].definition] # 0)
      => /\ failure[p] = NoneVal
         /\ handed[p] = cacheBefore[p][local[p].definition]
         /\ _collections[p] = cacheBefore[p]
         /\ ~remote[p]

\* a cached name was asked for again with skip_existing = False
C16_Witness ==
  \E p \in Single :
    /\ Returned(p)
    /\ cacheBefore[p][local[p].definition] # 0
    /\ ~local[p].skip_existing
    /\ handed[p] # 0

\* C17: get_collection(name), registry[name] and `name in registry` agree with
\* the cache: a name that is not realized gives KeyError, KeyError and False;
\* a realized one gives the cached handle, the cached handle and True.
C17_LookupsAgree ==
  \A p \in Single :
    call[p] = "lookup" =>
      LET n == lookup[p].name
      IN IF _collections[p][n] = 0
           THEN /\ lookup[p].get = NotFound("KeyError")
                /\ lookup[p].item = NotFound("KeyError")
                /\ ~lookup[p].contains
           ELSE /\ lookup[p].get = Found(_collections[p][n])
                /\ lookup[p].item = Found(_collections[p][n])
                /\ lookup[p].contains

\* a realized name was looked up, another one is not realized
C17_Witness ==
  \E p \in Single :
    /\ call[p] = "lookup"
    /\ _collections[p][lookup[p].name] # 0
    /\ \E n \in DefNames : _collections[p][n] = 0

\* ======================================================================
\* The bootstrap lock
\* ======================================================================

\* the callers between their successful _lock() and their own _unlock()
LockHolders == {p \in Procs : acquired[p]}

\* a caller has given up the wait and forced the lock open
SomeGaveUp == \E p \in Procs : timedOut[p]

\* C12 as stated: whatever the callers of create_all() on one database do, at
\* most one of them is between its successful lock acquisition and its release.
C12_Original == Cardinality(LockHolders) <= 1

\* C12: as long as no caller of create_all() has exceeded max_wait and forced
\* the lock open, at most one caller is between its successful lock
\* acquisition and its release.
C12_OneHolder == ~SomeGaveUp => Cardinality(LockHolders) <= 1

\* one caller holds the lock while another has found it taken and waits
C12_Witness ==
  /\ ~SomeGaveUp
  /\ \E p \in Procs : \E q \in Others(p) :
       acquired[p] /\ call[q] = "create_all" /\ local[q].wait_time > 0

\* the registry's create_all() has ended
Ended(p) == call[p] = "create_all" /\ ppc[p] = "done"

\* the collections a registry declares
Declared(p) == {topology[p][i] : i \in DOMAIN topology[p]}

\* C13: two registries race on create_all() over an empty database, no server
\* fault and neither waiting longer than max_wait: both calls return, every
\* declared collection exists, every default document (the lock seed too)
\* exists exactly once, and every declared index exists under its name.
C13_RaceConverges ==
  (/\ calls = 2
   /\ \A p \in Procs : Ended(p)
   /\ \E p \in Procs : ~alone[p]
   /\ faults = 0
   /\ ~SomeGaveUp)
  => /\ \A p \in Procs : failure[p] = NoneVal
     /\ locked[database_name] # "absent"
     /\ \A p \in Procs : \A n \in Declared(p) :
          /\ n \in collections
          /\ indices[n] = IndexNames(Def(n))
          /\ Def(n).default_docs # <<>> => docs[n][1] = 1

\* C14: a create_all() that got to its loop over the topology ends, by return
\* or by raise, with the lock document of its database at locked = False.
C14_EndsUnlocked ==
  [][\A p \in Procs :
       (ppc[p] \in {"ca_loop", "ca_unlock"} /\ ppc'[p] = "done")
         => locked'[database_name] = "False"]_vars

\* C15: a create_all(skip_existing = True) called when an earlier bootstrap has
\* put the declared collections on the server, and running with no other
\* caller, creates no collection, no index and no document.
C15_SecondRunCreatesNothing ==
  \A p \in Procs :
    (/\ call[p] = "create_all"
     /\ ~Resting(p)
     /\ local[p].skip_existing
     /\ rerun[p]
     /\ alone[p])
    => ~made[p]

\* a second run by a registry with a declared collection is about to unlock
C15_Witness ==
  \E p \in Procs :
    /\ call[p] = "create_all"
    /\ ppc[p] = "ca_loop"
    /\ local[p].it = Len(topology[p])
    /\ topology[p] # <<>>
    /\ local[p].skip_existing
    /\ rerun[p]
    /\ alone[p]
    /\ remote[p]

\* C18: after a create_all() that returned without error, every collection the
\* registry declares, at construction or by add_collection, exists on the
\* server and has a handle in the cache.
C18_AllRealized ==
  \A p \in Procs :
    (Ended(p) /\ failure[p] = NoneVal)
      => \A n \in Declared(p) : n \in collections /\ _collections[p][n] # 0

\* create_all() returned for a registry whose one definition was added later
C18_Witness ==
  \E p \in Procs : Ended(p) /\ failure[p] = NoneVal /\ topology[p] = <<"player">>

\* ======================================================================
\* The tower
\* ======================================================================

\* C19: a thread whose acquisition timed out on one of the two semaphores is
\* not in the guarded section, and no semaphore is released that was not
\* obtained: each stays at or below its initial value 1.
C19_TimeoutKeepsOut ==
  /\ \A t \in Threads :
       tpc[t] = "in" => obtained[t][Level(t)] = [multiprocess |-> TRUE, thread |-> TRUE]
  /\ multiprocess <= 1
  /\ thread <= 1

\* the thread is in `with tower:` again while it is inside the guarded section
Reentering(t) == Level(t) > 1 /\ tpc[t] = "multiprocess"

\* C20: a thread that holds the tower and enters it again gets into the inner
\* guarded section in the end.
C20_ReentryProceeds == \A t \in Threads : Reentering(t) ~> (tpc[t] = "in")

\* ======================================================================
\* The engine's clients
\* ======================================================================

\* the clients close() was called on
Closed == {closeCalls[i] : i \in DOMAIN closeCalls}

\* C21: every client the engine built and has replaced since was closed: at
\* most the current one is live.
C21_ReplacedClosed == \A k \in 1..created : k # client => k \in Closed

\* C24: a command started on a disposed engine that ends with an error has
\* made an attempt: the failure of the reconnect() before the loop is not
\* what the caller gets.
C24_ErrorFromLoop ==
  (CommandDone /\ startDisposed /\ raised # NoneVal) => Count("attempt") >= 1

\* C25: whenever an attempt is about to be made, its target is the collection
\* of the caller's handle (no name added) on the client the engine holds now.
C25_TargetCurrent ==
  (op = "command" /\ pc = "cmd_loop" /\ LoopContinues(attempt, error))
    => DialectEntity(collection) = [client |-> client, depth |-> 0]

\* ======================================================================
\* The tower's waits
\* ======================================================================

\* C22: a thread waiting for a semaphore of the tower that is taken can leave
\* the wait without a release: its acquire() has a timeout that runs out.
C22_WaitsBounded ==
  \A t \in Threads :
    /\ (tpc[t] = "multiprocess" /\ multiprocess = 0) => ENABLED TwTimeoutMp(t)
    /\ (tpc[t] = "thread" /\ thread = 0) => ENABLED TwTimeoutTh(t)

\* the threads inside the guarded section: in the body of reconnect() or dispose()
InBody == {t \in Threads : tpc[t] = "in"}

\* C23: with the tower the engine builds (timeout None), at most one thread is
\* inside the guarded section, where the bodies of reconnect() and dispose()
\* write the client, the disposed flag and the handles.
C23_BodiesExclusive == timeout = "None" => Cardinality(InBody) <= 1

\* one thread is in the body while the other waits at the tower
C23_Witness ==
  /\ timeout = "None"
  /\ \E t \in Threads : \E u \in Threads \ {t} :
       tpc[t] = "in" /\ tpc[u] = "multiprocess" /\ multiprocess = 0

\* ======================================================================
\* The bootstrap's wait, its lock document and its creation conflict
\* ======================================================================

\* C26: the caller whose wait exceeded max_wait writes locked = False to the
\* lock document of its database, raises nothing and goes on with the loop
\* over the topology, whoever holds the lock.
C26_GiveUpUnlocks ==
  [][\A p \in Procs :
       (ppc[p] = "ca_giveup" /\ ppc'[p] # "ca_giveup")
         => /\ locked'[database_name] = "False"
            /\ failure'[p] = NoneVal
            /\ ppc'[p] = "ca_loop"]_vars

\* C27: whenever a caller is at the find_one_and_update of _lock(), the lock
\* document of the target database exists.
C27_LockDocumentThere ==
  \A p \in Procs : ppc[p] = "ca_update" => locked[database_name] # "absent"

\* C30: when the server refuses create_collection(name) because a peer has
\* created the collection, no error is raised: the collection is fetched by
\* name and create_collection goes on with a handle for it.
C30_ConflictSwallowed ==
  [][\A p \in Procs :
       (/\ ppc[p] = "cc_create"
        /\ ppc'[p] # "cc_create"
        /\ local[p].definition \in collections
        /\ faults' = faults)
         => /\ failure'[p] = NoneVal
            /\ ppc'[p] \in {"cc_index", "cc_store"}
            /\ local'[p].new_collection = Len(heap'[p])
            /\ Last(heap'[p]) = Handle(local[p].definition, _database[p])]_vars

\* a caller lost the race for the lock collection and goes on as if it had
\* created it
C30_Witness ==
  \E p \in Procs :
    /\ ppc[p] = "cc_index"
    /\ local[p].is_new
    /\ ~made[p]
    /\ failure[p] = NoneVal
    /\ heap[p] # <<>>

IsPrefix(s, t) == Len(s) <= Len(t) /\ SubSeq(t, 1, Len(s)) = s

C29_InitialisesWhatIsMissing ==
  [][\A p \in Single :
       LET n == local[p].definition
       IN /\ (ppc[p] = "cc_check" /\ ppc'[p] # "cc_check" /\ ~IsCached(p, n)
                /\ n \in collections /\ SkipExisting(p))
               => ppc'[p] = "cc_store"
          /\ (ppc[p] = "cc_index" /\ ppc'[p] # "cc_index" /\ faults' = faults)
               => indices'[n] = indices[n] \cup IndexNames(Def(n))
          /\ \A m \in DefNames, d \in Depths :
               docs'[m][d] # docs[m][d]
                 => /\ ppc[p] = "cc_insert"
                    /\ m = n
                    /\ docs[m][d] = 0
                    /\ docs'[m][d] = 1
          /\ (call[p] = "create_collection" /\ ppc[p] = "cc_store" /\ ppc'[p] = "done")
               => /\ failure'[p] = NoneVal
                  /\ _collections'[p][n] # 0]_vars

\* ======================================================================
\* The engine's retry loop, reconnect observers and ping, continued
\* ======================================================================

\* the position in the call record of the last event of a kind (0: none)
LastAt(kind) ==
  LET idx == {i \in DOMAIN log : log[i].ev = kind}
  IN IF idx = {} THEN 0 ELSE CHOOSE i \in idx : \A j \in idx : j <= i

\* the command ran out of attempts: every attempt failed with a retryable
\* failure and every reconnect() built its client and ran its observers
Exhausted ==
  CommandDone /\ Len(Attempts) >= 1 /\ AllAttemptsRetryable /\ ReconnectsSucceeded

\* C34 as stated: when every attempt fails with a retryable failure and every
\* reconnect succeeds, the command has slept and reconnected exactly
\* write_retry + 1 times when the error is raised.
C34_Original ==
  Exhausted
  => /\ Count("sleep") = write_retry + 1
     /\ Count("reconnect") = write_retry + 1

\* C34 amended: when every attempt fails with a retryable failure and every
\* reconnect succeeds, a sleep and a reconnect() with every observer called
\* follow each failed attempt, the last one included, so the error is raised
\* on an engine that is not disposed and holds a client no attempt used; the
\* command has slept and reconnected write_retry + 1 times, and once more,
\* before its first attempt, when the engine was disposed at the call.
C34_ReconnectsAfterLastFailure ==
  Exhausted
  => /\ Count("sleep") = write_retry + 1 + (IF startDisposed THEN 1 ELSE 0)
     /\ Count("reconnect") = write_retry + 1 + (IF startDisposed THEN 1 ELSE 0)
     /\ Count("hook") = Count("reconnect") * Len(reconnect_hooks)
     /\ Len(log) = LastAt("attempt") + 2 + Len(reconnect_hooks)
     /\ \A j \in DOMAIN log :
          log[j].ev = "attempt"
            => /\ log[j + 1].ev = "sleep"
               /\ log[j + 2].ev = "reconnect"
               /\ log[j].client # client
     /\ raised = ErrOf(Last(Attempts))
     /\ ~disposed
     /\ client = created

C34_Witness ==
  /\ Exhausted
  /\ ~startDisposed
  /\ write_retry = 1
  /\ Len(reconnect_hooks) = 1
  /\ Count("reconnect") = 2
  /\ Count("hook") = 2
  /\ Last(log).ev = "hook"
  /\ raised = Err("AutoReconnect", 0)

\* C35: in a command, a reconnect() that fails, at the build of the client or
\* in an observer, is the last thing the operation does: its error is the one
\* raised, not the error of the attempt before it, and no further attempt is
\* made whatever is left of the budget.
C35_FailedReconnectEnds ==
  \A i \in DOMAIN log :
    (op = "command" /\ log[i].ev \in {"reconnect", "hook"} /\ Failed(log[i]))
    => /\ i = Len(log)
       /\ pc \in {"rc_ret", "done"}
       /\ pc = "rc_ret" => rcError = ErrOf(log[i])
       /\ pc = "done" => raised = ErrOf(log[i])
       /\ returned = NoResult

\* the reconnect after the first of three possible attempts failed, and its
\* error, not the attempt's, was raised
C35_Witness ==
  /\ CommandDone
  /\ ~startDisposed
  /\ write_retry = 2
  /\ Len(Attempts) = 1
  /\ ErrOf(Attempts[1]) = Err("AutoReconnect", 0)
  /\ Last(log).ev = "reconnect"
  /\ Failed(Last(log))
  /\ raised = Err("IOError", 0)

\* C36: when an observer raises during a reconnect() the caller asked for,
\* the error reaches the caller, after the new client was swapped in and
\* disposed was cleared; the observers registered after the raising one were
\* not called, and both semaphores of the tower are free again.
C36_ObserverErrorSurfaces ==
  \A i \in DOMAIN log :
    (op = "reconnect" /\ log[i].ev = "hook" /\ Failed(log[i]))
    => /\ i = Len(log)
       /\ pc \in {"rc_ret", "done"}
       /\ pc = "rc_ret" => rcError = ErrOf(log[i])
       /\ pc = "done" => raised = ErrOf(log[i])
       /\ client = created
       /\ client > clientBefore
       /\ log[i].client = client
       /\ ~disposed
       /\ Count("hook") <= Len(reconnect_hooks)
       /\ \A j \in DOMAIN Events("hook") : Events("hook")[j].hook = reconnect_hooks[j]
       /\ multiprocess = 1
       /\ thread = 1

\* the first of two observers raised on a disposed engine: the second was
\* not called
C36_Witness ==
  /\ op = "reconnect"
  /\ pc = "done"
  /\ startDisposed
  /\ Len(reconnect_hooks) = 2
  /\ Count("hook") = 1
  /\ Failed(Last(log))
  /\ raised = Err("IOError", 0)
  /\ ~disposed
  /\ client = created
  /\ multiprocess = 1

\* the ping commands of the call
Pings == Events("ping")

ConnectivityFailure(e) == Failed(e) /\ IsInstance(ErrOf(e), CONNECTION_ERRORS)

\* what ping() does about each ping command but for what follows a driver
\* failure of another class: at most max(1, read_retry) commands, none after
\* one that reported ok, a sleep and a reconnect() after a connectivity failure
PingPasses ==
  /\ Count("ping") <= Max(1, read_retry)
  /\ \A i \in DOMAIN log :
       /\ (log[i].ev = "ping" /\ ~Failed(log[i])) => i = Len(log)
       /\ (log[i].ev = "ping" /\ ConnectivityFailure(log[i]))
            => /\ Len(log) > i
               /\ log[i + 1].ev = "sleep"
               /\ IF Len(log) > i + 1 THEN log[i + 2].ev = "reconnect" ELSE pc = "rc_new"

\* a ping command failed with a driver error that is no connectivity error
OtherFailureAt(i) == log[i].ev = "ping" /\ Failed(log[i]) /\ ~ConnectivityFailure(log[i])

\* C40 as stated: ping() issues at most max(1, read_retry) ping commands and
\* stops at the first that reports ok; a connectivity failure is followed by a
\* sleep and a reconnect(), any other driver failure by neither.
C40_Original ==
  op = "ping"
  => /\ PingPasses
     /\ \A i \in DOMAIN log :
          (OtherFailureAt(i) /\ Len(log) > i) => log[i + 1].ev = "ping"

\* C40 amended: ping() issues at most max(1, read_retry) ping commands and
\* stops at the first that reports ok; a connectivity failure is followed by a
\* sleep and a reconnect(); any other driver failure is followed by no sleep,
\* and by a reconnect() only when the engine is still disposed, its reconnect
\* at the head of the pass having failed: the next pass then starts with
\* another one.
C40_PingBudget ==
  op = "ping"
  => /\ PingPasses
     /\ \A i \in DOMAIN log :
          (OtherFailureAt(i) /\ Len(log) > i)
            => \/ log[i + 1].ev = "ping"
               \/ /\ log[i + 1].ev = "reconnect"
                  /\ i > 1
                  /\ log[i - 1].ev = "reconnect"
                  /\ Failed(log[i - 1])

\* two ping commands: a driver failure that is no connectivity error, then ok
C40_Witness ==
  /\ op = "ping"
  /\ pc = "done"
  /\ read_retry = 2
  /\ Count("ping") = 2
  /\ ErrOf(Pings[1]) = Err("ConfigurationError", 0)
  /\ ~Failed(Pings[2])
  /\ pingReturn = "True"

\* ======================================================================
\* The wait loop of create_all() and the master lock, continued
\* ======================================================================

\* the lock attempts the claim allows one create_all() call
LockAttemptsAllowed == (max_wait \div wait_step) + 1

\* the running create_all() is in its wait loop: _lock() is running or about
\* to be called again
InWaitLoop(p) ==
  /\ call[p] = "create_all"
  /\ ppc[p] \in {"cc_check", "cc_list", "cc_create", "cc_index", "cc_find", "cc_insert",
                 "cc_store", "ca_update"}
  /\ local[p].ret = "lock"

\* C38 as stated: with wait_step > 0, one create_all() call makes at most
\* floor(max_wait / wait_step) + 1 lock attempts.
C38_Original ==
  \A p \in Single : call[p] = "create_all" => local[p].tries <= LockAttemptsAllowed

\* C38 amended: with wait_step > 0 and max_wait >= 0, one create_all() call
\* makes at most floor(max_wait / wait_step) + 1 lock attempts, and with a
\* negative max_wait at most one; after the attempt that leaves the
\* accumulated wait above max_wait the call is out of its wait loop for good.
C38_WaitLoopBounded ==
  \A p \in Single :
    call[p] = "create_all"
      => /\ max_wait >= 0 => local[p].tries <= LockAttemptsAllowed
         /\ max_wait < 0 => local[p].tries <= 1
         /\ (local[p].tries >= 1 /\ local[p].wait_time > max_wait) => ~InWaitLoop(p)

\* the lock document stays locked, wait_step = 2 and max_wait = 3: the second
\* attempt has failed and the caller gives up
C38_Witness ==
  \E p \in Single :
    /\ call[p] = "create_all"
    /\ ppc[p] = "ca_giveup"
    /\ wait_step = 2
    /\ max_wait = 3
    /\ local[p].tries = 2
    /\ local[p].wait_time = 4
    /\ locked[database_name] = "True"

\* C39: whenever a caller's _lock() turned the lock document of its database
\* from not locked to locked, in the step that ends the _lock() or in an
\* earlier attempt of it that failed for the caller, the _lock() ends as a
\* successful acquisition of that caller: no error, and the caller goes on as
\* the holder.
C39_FlipIsAcquisition ==
  [][\A p \in Single :
       ( /\ ppc[p] = "ca_update"
         /\ ppc'[p] # "ca_update"
         /\ \/ local[p].flipped
            \/ locked[database_name] = "False" /\ locked'[database_name] = "True" )
         => /\ acquired'[p]
            /\ failure'[p] = NoneVal
            /\ ppc'[p] = "ca_loop"]_vars

\* C32: after fill_index_names() ran on a CollectionDefinition, the names of
\* its indices are pairwise distinct, whatever indices it was built with.
C32_NamesPairwiseDistinct ==
  \A t \in Threads :
    job[t] = "filled"
      => \A i, j \in DOMAIN definition.indices :
           i # j => definition.indices[i].name # definition.indices[j].name

\* the step is a run of _create_indices on collection n in which create_index
\* raised: inside create_collection, or called by the user
IndexErrorIn(p) ==
  /\ faults' > faults
  /\ \/ ppc[p] = "cc_index"
     \/ Resting(p) /\ calls' = calls + 1 /\ call'[p] = "_create_indices"

\* every index of the definition that was neither present nor refused is
\* present after the step
RestCreated(n) ==
  /\ indices[n] \subseteq indices'[n]
  /\ indices'[n] \subseteq IndexNames(Def(n)) \cup indices[n]
  /\ Cardinality(indices'[n])
       = Cardinality(indices[n] \cup IndexNames(Def(n))) - (faults' - faults)

\* C31: an error of create_index is swallowed in silent mode, the default
\* and the mode of create_collection: the indices after the refused one are
\* still created and create_collection goes on with no error; it is raised to
\* the caller only in a call with silent = False, where it ends the call.
C31_SwallowedUnlessAsked ==
  [][\A p \in Single :
       LET n == local'[p].definition
       IN /\ (IndexErrorIn(p) /\ ppc[p] = "cc_index")
               => /\ failure'[p] = NoneVal
                  /\ ppc'[p] \in {"cc_find", "cc_store"}
                  /\ RestCreated(n)
          /\ (IndexErrorIn(p) /\ ppc[p] # "cc_index" /\ local'[p].silent)
               => /\ failure'[p] = NoneVal
                  /\ RestCreated(n)
          /\ (IndexErrorIn(p) /\ ppc[p] # "cc_index" /\ ~local'[p].silent)
               => /\ failure'[p] = Err("OperationFailure", 0)
                  /\ faults' = faults + 1
                  /\ ppc'[p] = "done"
          /\ (ppc[p] = "cc_index" \/ (calls' = calls + 1 /\ call'[p] = "_create_indices"))
               => (failure'[p] # NoneVal => IndexErrorIn(p) /\ ~local'[p].silent)]_vars

\* create_collection of "player", new on the server: create_index raised for
\* the first index, the second one was created, and the call goes on
C31_Witness ==
  \E p \in Single :
    /\ call[p] = "create_collection"
    /\ calls = 1
    /\ ppc[p] = "cc_store"
    /\ local[p].definition = "player"
    /\ faults = 1
    /\ indices["player"] = {"ix__player__name"}
    /\ failure[p] = NoneVal

\* C37: threads call dispose() on one connected engine, in any interleaving
\* and with no reconnect: close() of the client is called once and no more,
\* every call that was made returns, and it returns with disposed = True.
C37_ClosedOnce ==
  /\ [](Len(closeCalls) <= 1)
  /\ [](\A t \in Threads : job[t] = "returned" => disposed /\ Len(closeCalls) = 1)
  /\ \A t \in Threads : (job[t] = "called" ~> job[t] = "returned")

\* both threads were past the first check before either closed the client,
\* and both have returned
C37_Witness ==
  /\ \A t \in Threads : job[t] = "returned" /\ entered[t] = 1
  /\ disposed
  /\ Len(closeCalls) = 1

\* the four semaphores the threads of one process meet: the tower's two and
\* the two of the registry's create_all()
Mutexes == {"multiprocess", "thread", "mp_semaphore", "th_semaphore"}

\* the thread has acquired the semaphore and not released it yet
Holds(t, m) ==
  CASE m = "multiprocess" -> \E i \in DOMAIN obtained[t] : obtained[t][i].multiprocess
    [] m = "thread" ->
         \E i \in DOMAIN obtained[t] :
           obtained[t][i].thread /\ ~(i = Level(t) /\ tpc[t] = "exit")
    [] m = "mp_semaphore" -> job[t] \in {"with_th", "body", "leave_mp"}
    [] OTHER -> job[t] = "body"

\* the thread is in acquire() of the semaphore, which is taken
WaitsFor(t, m) ==
  CASE m = "multiprocess" -> tpc[t] = "multiprocess" /\ multiprocess = 0
    [] m = "thread" -> tpc[t] = "thread" /\ thread = 0
    [] m = "mp_semaphore" -> job[t] = "with_mp" /\ mp_semaphore = 0
    [] OTHER -> job[t] = "with_th" /\ th_semaphore = 0

\* two threads wait on two semaphores in opposite orders
OppositeWaits ==
  \E t, u \in Threads : \E a, b \in Mutexes :
    /\ t # u
    /\ a # b
    /\ Holds(t, a) /\ WaitsFor(t, b)
    /\ Holds(u, b) /\ WaitsFor(u, a)

\* C33: the tower takes multiprocess before thread and releases thread before
\* multiprocess; create_all() takes mp_semaphore before th_semaphore; and no
\* two threads ever wait on these semaphores in opposite orders.
C33_OneOrder ==
  /\ [][\A t \in Threads :
          /\ (tpc'[t] # tpc[t] /\ multiprocess' < multiprocess)
               => tpc[t] = "multiprocess" /\ ~obtained[t][Level(t)].thread
          /\ (tpc'[t] # tpc[t] /\ thread' < thread) => tpc[t] = "thread"
          /\ (tpc'[t] # tpc[t] /\ thread' > thread) => tpc[t] = "in" /\ tpc'[t] = "exit"
          /\ (tpc'[t] # tpc[t] /\ multiprocess' > multiprocess) => tpc[t] = "exit"
          /\ (job'[t] # job[t] /\ mp_semaphore' < mp_semaphore) => ~Holds(t, "th_semaphore")
          /\ (job'[t] # job[t] /\ th_semaphore' < th_semaphore) => Holds(t, "mp_semaphore")]_vars
  /\ [](~OppositeWaits)

====
